---- MODULE Spec2Model ----
(***************************************************************************)
(* news-world-monitor: the per-hour rollup counters kept by                *)
(* FirestoreRollup.apply_for_article (news_processor/firestore_rollup.py), *)
(* the write path in front of it (news_processor/firestore_writer.py) and  *)
(* the article cache of the dashboard                                      *)
(* (news_atlas/article_smart_cache.py over news_atlas/news_data_loader.py).*)
(*                                                                         *)
(* Spec      : the rollup engine, several workers running transactions.    *)
(* CacheSpec : SmartArticleCache.get over a growing article collection.    *)
(* RetrySpec : the deliveries of one event, failed calls made again, fair. *)
(* ConcSpec  : get running on several threads of the dashboard's server.   *)
(* QuerySpec : the loader's aggregate queries over the rollup counters.     *)
(* DashSpec  : the dashboard's callbacks around the article list.          *)
(* ParentSpec: get for a query with both filters and for its two parents.  *)
(* DeliverySpec: deliveries through the write path, before and after the   *)
(*             rollup of the event.                                        *)
(***************************************************************************)
EXTENDS Integers, Sequences, FiniteSets, TLC

VARIABLES
    fs,        \* the Firestore database: articles and the four counter families
    txn,       \* per worker: the apply_for_article / write_article call in progress
    commits,   \* per article: rollup transactions committed (history variable)
    articleDb, \* the /articles collection as the dashboard's loader sees it
    store,     \* SmartArticleCache.store: key -> list of rows
    last,      \* the last get call: arguments, path taken, result (history)
    failed,    \* the key of a get whose fetch raised, not answered since (history)
    threads,   \* per dashboard thread: the get call it has in progress
    answer,    \* the last aggregate query of the loader and its result (history)
    ui         \* the dashboard's dcc.Store values and the callbacks waiting to run

rollupVars == <<fs, txn, commits>>
cacheVars == <<articleDb, store, last, failed, threads, answer, ui>>
vars == <<fs, txn, commits, articleDb, store, last, failed, threads, answer, ui>>

----------------------------------------------------------------------------
(* Bounds of the model *)

\* writes of one article document by the write path (deliveries of its message)
MaxDeliveries == 2
\* entries of the cache (it has no eviction; the bound stops new keys)
MaxEntries == 2
\* the largest page size asked for (the dashboard asks for 3)
MaxPage == 2
\* attempts of one transaction before the client library gives up
\* (google-cloud-firestore's default is 5; any value >= 1 gives the same code path)
MaxAttempts == 2
Workers == {"w1", "w2"}
ArticleIds == {"a1", "a2"}

\* event times, in minutes; 605 and 640 fall in the same hour
Times == {605, 640, 665}

----------------------------------------------------------------------------
(* Shared helpers *)

\* Optional values: None is <<>>, a present value x is <<x>>
None == <<>>
Some(x) == <<x>>

\* dict.get on a mapping whose domain is the set of keys written so far
Has(f, k) == k \in DOMAIN f
Put(f, k, v) == [x \in (DOMAIN f) \cup {k} |-> IF x = k THEN v ELSE f[x]]

\* str.upper() on the country codes that occur
Upper(s) ==
    CASE s = "usa" -> "USA"
      [] s = "xx" -> "XX"
      [] OTHER -> s

\* str.lower() on the entity names that occur
Lower(s) ==
    CASE s = "NASA" -> "nasa"
      [] s = "Nasa" -> "nasa"
      [] s = "FAA" -> "faa"
      [] OTHER -> s

\* slugify: lower-case, drop punctuation, whitespace runs to "-", "entity" when empty.
\* The names that occur hold neither punctuation nor whitespace.
slugify(s) ==
    IF Lower(s) = "" THEN "entity" ELSE Lower(s)

\* hour_bucket: strftime("%Y%m%d%H") of a UTC time, here the hour number of the minute
hour_bucket(t) == t \div 60

Hours == {hour_bucket(t) : t \in Times}

\* sum of f over a finite set
RECURSIVE SumOver(_, _)
SumOver(S, f) ==
    IF S = {} THEN 0
    ELSE LET x == CHOOSE y \in S : TRUE
         IN f[x] + SumOver(S \ {x}, f)

----------------------------------------------------------------------------
(* Events and article documents *)

NoTime == [kind |-> "none", t |-> 0]
BadTime == [kind |-> "bad", t |-> 0]
Ts(t) == [kind |-> "ts", t |-> t]

Ent(n, ty) == [tag |-> "dict", name |-> n, type |-> ty]

\* write_article's arguments (country, time_val, entities_canonical): the country
\* is an ISO3 code or absent, the entities come from EntityExtractor.build, a table
\* keyed by name, so the names of one event are distinct (their slugs need not be)
WriterInputs ==
    { [country |-> "USA", time |-> 605,
       entities |-> <<Ent("NASA", "ORGANIZATION")>>],
      [country |-> "USA", time |-> 640,
       entities |-> <<Ent("NASA", "ORGANIZATION"), Ent("FAA", "ORGANIZATION")>>],
      [country |-> "", time |-> 605,
       entities |-> <<Ent("NASA", "ORGANIZATION"), Ent("Nasa", "PERSON")>>],
      [country |-> "", time |-> 640,
       entities |-> <<Ent("Nasa", "LOCATION")>>],
      [country |-> "USA", time |-> 665,
       entities |-> <<Ent("FAA", "ORGANIZATION")>>],
      [country |-> "", time |-> 665, entities |-> <<>>] }

\* the document an article reference points at
NoDoc ==
    [exists |-> FALSE, country |-> "", time |-> NoTime, hour |-> None,
     entities |-> <<>>, done |-> FALSE, ver |-> 0]

\* FirestoreWriter.write_article's payload: no "hour", no "rollups_done"
Payload(inp) ==
    [country |-> Upper(inp.country), time |-> Ts(inp.time), entities |-> inp.entities]

\* Documents of /articles that were not stored by write_article: the rollup reads
\* them defensively (a stored hour, no time, a lower-case country, a nameless
\* entity, an entry that is no dict, a time of an unsupported type).
GivenDocs ==
    { [country |-> "usa", time |-> NoTime, hour |-> Some(hour_bucket(665)),
       entities |-> <<Ent("FAA", "")>>],
      [country |-> "", time |-> NoTime, hour |-> None,
       entities |-> <<Ent("", "PERSON"), Ent("NASA", "ORGANIZATION")>>],
      [country |-> "USA", time |-> BadTime, hour |-> None,
       entities |-> <<Ent("NASA", "ORGANIZATION")>>],
      [country |-> "USA", time |-> Ts(605), hour |-> None,
       entities |-> <<Ent("NASA", "ORGANIZATION"),
                      [tag |-> "str", name |-> "FAA", type |-> ""]>>] }

----------------------------------------------------------------------------
(* The rollup transaction: FirestoreRollup.apply_for_article._txn *)

\* a buffered tx.set(..., merge=True); unused fields are "" / 0
Write(kind, id, hour, country, eid, entity, type) ==
    [kind |-> kind, id |-> id, hour |-> hour, country |-> country,
     eid |-> eid, entity |-> entity, type |-> type]

\* a mutant: the processed marker is not looked at
AlreadyDoneNever(a) == FALSE

\* if a.get("rollups_done"): return
AlreadyDone(a) == a.done

\* a mutant: no sentinel for an event without a country
CountryOfNoSentinel(a) == Upper(a.country)

\* country = (a.get("country") or "XX").upper()
CountryOf(a) == Upper(IF a.country = "" THEN "XX" ELSE a.country)

\* a mutant: the hour stored on the event is not looked at
HourOfTimeOnly(a, now) ==
    hour_bucket(IF a.time.kind = "ts" THEN a.time.t ELSE now)

\* hour = a.get("hour") or hour_bucket(dt_utc)
HourOf(a, now) ==
    IF a.hour # None THEN a.hour[1]
    ELSE hour_bucket(IF a.time.kind = "ts" THEN a.time.t ELSE now)

\* a mutant: the entity's per-country cell is not written
EntityIncrementsNoBreakdown(ent, hour, country) ==
    LET etype == IF ent.type = "" THEN "OTHER" ELSE ent.type
        eid == slugify(ent.name)
    IN << Write("entity", "", hour, "", eid, ent.name, etype),
          Write("countryEnt", "", hour, country, eid, ent.name, etype) >>

\* a mutant: the country's per-entity cell is not written
EntityIncrementsNoCountryIndex(ent, hour, country) ==
    LET etype == IF ent.type = "" THEN "OTHER" ELSE ent.type
        eid == slugify(ent.name)
    IN << Write("entity", "", hour, "", eid, ent.name, etype),
          Write("entCountry", "", hour, country, eid, "", "") >>

\* the three tx.set calls of one pass of the entity loop
EntityIncrements(ent, hour, country) ==
    LET etype == IF ent.type = "" THEN "OTHER" ELSE ent.type
        eid == slugify(ent.name)
    IN << Write("entity", "", hour, "", eid, ent.name, etype),
          Write("entCountry", "", hour, country, eid, "", ""),
          Write("countryEnt", "", hour, country, eid, ent.name, etype) >>

\* for ent in entities: ... ; an entry that is no dict raises on .get, a nameless
\* entry is skipped. The writes buffered before an exception stay in the result.
RECURSIVE EntityLoop(_, _, _)
EntityLoop(ents, hour, country) ==
    IF ents = <<>> THEN [raised |-> FALSE, writes |-> <<>>]
    ELSE LET ent == Head(ents)
         IN IF ent.tag # "dict" THEN [raised |-> TRUE, writes |-> <<>>]
            ELSE LET rest == EntityLoop(Tail(ents), hour, country)
                 IN IF ent.name = "" THEN rest
                    ELSE [raised |-> rest.raised,
                          writes |-> EntityIncrements(ent, hour, country) \o rest.writes]

\* a mutant: the document of the hour is not written
TxnBodyNoHourDoc(id, a, now) ==
    IF ~a.exists THEN [status |-> "missing", writes |-> <<>>]
    ELSE IF AlreadyDone(a) THEN [status |-> "done", writes |-> <<>>]
    ELSE IF a.time.kind = "bad" THEN [status |-> "raise", writes |-> <<>>]
    ELSE LET hour == HourOf(a, now)
             country == CountryOf(a)
             loop == EntityLoop(a.entities, hour, country)
             head == << Write("article", id, hour, "", "", "", ""),
                        Write("country", "", hour, country, "", "", "") >>
         IN [status |-> IF loop.raised THEN "raise" ELSE "ok",
             writes |-> head \o loop.writes]

\* the body of _txn on the snapshot a of article id, with datetime.now() = now:
\* what it returns or raises and the writes it buffered on the transaction
TxnBody(id, a, now) ==
    IF ~a.exists THEN [status |-> "missing", writes |-> <<>>]
    ELSE IF AlreadyDone(a) THEN [status |-> "done", writes |-> <<>>]
    ELSE IF a.time.kind = "bad" THEN [status |-> "raise", writes |-> <<>>]
    ELSE LET hour == HourOf(a, now)
             country == CountryOf(a)
             loop == EntityLoop(a.entities, hour, country)
             head == << Write("article", id, hour, "", "", "", ""),
                        Write("hour", "", hour, "", "", "", ""),
                        Write("country", "", hour, country, "", "", "") >>
         IN [status |-> IF loop.raised THEN "raise" ELSE "ok",
             writes |-> head \o loop.writes]

\* a mutant: the field is written as 1 instead of being incremented
IncrementedOverwrites(f, k, field) == 1

\* firestore.Increment(1) on a field of a document that may not exist yet
Incremented(f, k, field) == IF Has(f, k) THEN f[k][field] + 1 ELSE 1

\* one write of a committed transaction applied to the database
ApplyWrite(s, w) ==
    CASE w.kind = "article" ->
           [s EXCEPT !.articles[w.id] =
               [@ EXCEPT !.exists = TRUE, !.hour = Some(w.hour), !.done = TRUE,
                         !.ver = @ + 1]]
      [] w.kind = "hour" ->
           [s EXCEPT !.mentions = @ \cup {w.hour}]
      [] w.kind = "country" ->
           [s EXCEPT !.countries =
               Put(@, <<w.hour, w.country>>,
                   [country |-> w.country,
                    total |-> Incremented(@, <<w.hour, w.country>>, "total")])]
      [] w.kind = "entity" ->
           [s EXCEPT !.entities =
               Put(@, <<w.hour, w.eid>>,
                   [entity |-> w.entity, type |-> w.type,
                    total |-> Incremented(@, <<w.hour, w.eid>>, "total")])]
      [] w.kind = "entCountry" ->
           [s EXCEPT !.entCountries =
               Put(@, <<w.hour, w.eid, w.country>>,
                   [country |-> w.country,
                    count |-> Incremented(@, <<w.hour, w.eid, w.country>>, "count")])]
      [] w.kind = "countryEnt" ->
           [s EXCEPT !.countryEnts =
               Put(@, <<w.hour, w.country, w.eid>>,
                   [entityId |-> w.eid, entity |-> w.entity, type |-> w.type,
                    count |-> Incremented(@, <<w.hour, w.country, w.eid>>, "count")])]

\* the commit of a transaction: its writes, in order, as one unit
RECURSIVE ApplyWrites(_, _)
ApplyWrites(s, ws) ==
    IF ws = <<>> THEN s ELSE ApplyWrites(ApplyWrite(s, Head(ws)), Tail(ws))

\* a mutant: writes sent one by one as they are made, so that an exception leaves
\* the ones made before it in the database
OnExceptionPartial(s, ws) == ApplyWrites(s, ws)

\* @firestore.transactional: an exception in the body rolls the transaction back
OnException(s, ws) == s

\* a mutant: the commit does not look at what was read
ConflictNever(a, readVer) == FALSE

\* the store's conflict detection: the article read in the transaction was
\* written by somebody else before the commit
Conflict(a, readVer) == a.ver # readVer

----------------------------------------------------------------------------
(* The rollup engine as a state machine *)

Idle ==
    [pc |-> "idle", id |-> "", readVer |-> 0, writes |-> <<>>, attempts |-> 0,
     outcome |-> "", retryOf |-> ""]

EmptyFs ==
    [articles |-> [id \in ArticleIds |-> NoDoc], mentions |-> {},
     countries |-> <<>>, entities |-> <<>>, entCountries |-> <<>>,
     countryEnts |-> <<>>]

RollupInit ==
    /\ fs = EmptyFs
    /\ txn = [w \in Workers |-> Idle]
    /\ commits = [id \in ArticleIds |-> 0]

\* a mutant: the upsert replaces a stored document (merge=False)
TxWriteReplaces(a, payload) ==
    [exists |-> TRUE, country |-> payload.country, time |-> payload.time,
     hour |-> None, entities |-> payload.entities, done |-> FALSE,
     ver |-> a.ver + 1]

\* FirestoreWriter._tx_write: set(merge=True) on a stored document keeps the
\* fields the payload does not name (hour, rollups_done); a new document is set
\* whole
TxWrite(a, payload) ==
    IF a.exists
    THEN [a EXCEPT !.country = payload.country, !.time = payload.time,
                   !.entities = payload.entities, !.ver = @ + 1]
    ELSE [exists |-> TRUE, country |-> payload.country, time |-> payload.time,
          hour |-> None, entities |-> payload.entities, done |-> FALSE,
          ver |-> a.ver + 1]

SamePayload(a, payload) ==
    /\ a.country = payload.country
    /\ a.time = payload.time
    /\ a.entities = payload.entities

\* write_article up to its call of apply_for_article: the upsert transaction.
\* The document id is derived from the url, so a redelivery carries the payload
\* the stored document was written from.
WriteArticle(w, id, inp) ==
    /\ txn[w].pc = "idle"
    /\ fs.articles[id].ver < MaxDeliveries
    /\ fs.articles[id].exists => SamePayload(fs.articles[id], Payload(inp))
    /\ fs' = [fs EXCEPT !.articles[id] = TxWrite(@, Payload(inp))]
    /\ txn' = [txn EXCEPT ![w] = [Idle EXCEPT !.pc = "begin", !.id = id]]
    /\ UNCHANGED <<commits, cacheVars>>

\* a document of /articles that is given (not stored by write_article)
GiveDoc(id, d) ==
    /\ ~fs.articles[id].exists
    /\ fs' = [fs EXCEPT !.articles[id] =
                 [exists |-> TRUE, country |-> d.country, time |-> d.time,
                  hour |-> d.hour, entities |-> d.entities, done |-> FALSE,
                  ver |-> @.ver + 1]]
    /\ UNCHANGED <<txn, commits, cacheVars>>

\* apply_for_article(article_ref) on any reference, stored or not
CallApply(w, id) ==
    /\ txn[w].pc = "idle"
    /\ txn' = [txn EXCEPT ![w] = [Idle EXCEPT !.pc = "begin", !.id = id]]
    /\ UNCHANGED <<fs, commits, cacheVars>>

\* a mutant: a call on a processed event ends with an error
ReturnsOnDoneRaises(t) == [t EXCEPT !.pc = "raised", !.outcome = "exception"]

\* if a.get("rollups_done"): return -- _txn returns, the empty transaction
\* commits and apply_for_article returns None
ReturnsOnDone(t) == [t EXCEPT !.pc = "returned", !.outcome = "noop"]

\* if not snap.exists: return -- the same silent return for a missing document
ReturnsOnMissing(t) == [t EXCEPT !.pc = "returned", !.outcome = "missing"]

\* one attempt of _txn: the read of the article and the body, up to the commit
TxnRead(w) ==
    /\ txn[w].pc = "begin"
    /\ \E now \in Times :
         LET a == fs.articles[txn[w].id]
             b == TxnBody(txn[w].id, a, now)
         IN /\ fs' = IF b.status = "raise" THEN OnException(fs, b.writes) ELSE fs
            /\ txn' = [txn EXCEPT ![w] =
                 CASE b.status = "missing" -> ReturnsOnMissing(@)
                   [] b.status = "done" -> ReturnsOnDone(@)
                   [] b.status = "raise" ->
                        [@ EXCEPT !.pc = "raised", !.outcome = "exception"]
                   [] OTHER ->
                        [@ EXCEPT !.pc = "commit", !.readVer = a.ver,
                                  !.writes = b.writes]]
    /\ UNCHANGED <<commits, cacheVars>>

\* the commit: all buffered writes or, on a conflict, none and another attempt
\* (the client library gives up after MaxAttempts)
TxnCommit(w) ==
    /\ txn[w].pc = "commit"
    /\ LET id == txn[w].id
       IN IF ~Conflict(fs.articles[id], txn[w].readVer)
          THEN /\ fs' = ApplyWrites(fs, txn[w].writes)
               /\ commits' = [commits EXCEPT ![id] = @ + 1]
               /\ txn' = [txn EXCEPT ![w] =
                    [@ EXCEPT !.pc = "returned", !.outcome = "committed",
                              !.writes = <<>>]]
          ELSE /\ UNCHANGED <<fs, commits>>
               /\ txn' = [txn EXCEPT ![w] =
                    IF txn[w].attempts + 1 < MaxAttempts
                    THEN [@ EXCEPT !.pc = "begin", !.attempts = @ + 1,
                                   !.writes = <<>>]
                    ELSE [@ EXCEPT !.pc = "raised", !.outcome = "conflict",
                                   !.writes = <<>>]]
    /\ UNCHANGED cacheVars

\* the store rejects the commit (unavailable, deadline): nothing is written
CommitFail(w) ==
    /\ txn[w].pc = "commit"
    /\ txn' = [txn EXCEPT ![w] =
         [@ EXCEPT !.pc = "raised", !.outcome = "rejected", !.writes = <<>>]]
    /\ UNCHANGED <<fs, commits, cacheVars>>

\* the call ends: apply_for_article returns or the exception reaches the caller
Return(w) ==
    /\ txn[w].pc \in {"returned", "raised"}
    /\ txn' = [txn EXCEPT ![w] = Idle]
    /\ UNCHANGED <<fs, commits, cacheVars>>

\* a mutant: the caller gives up after a failed call
RetryGivesUp(w) ==
    /\ txn[w].pc = "raised"
    /\ txn[w].outcome \in {"conflict", "rejected"}
    /\ txn' = [txn EXCEPT ![w] = Idle]
    /\ UNCHANGED <<fs, commits, cacheVars>>

\* pubsub_push answers 500 when process_article raises and Pub/Sub delivers the
\* message again: the caller invokes apply_for_article again for the same event
\* after a failed transaction (retryOf keeps the failure that led to the call)
Retry(w) ==
    /\ txn[w].pc = "raised"
    /\ txn[w].outcome \in {"conflict", "rejected"}
    /\ txn' = [txn EXCEPT ![w] =
         [Idle EXCEPT !.pc = "begin", !.id = txn[w].id, !.retryOf = txn[w].outcome]]
    /\ UNCHANGED <<fs, commits, cacheVars>>

\* the same through write_article: the redelivery upserts the article first
Redeliver(w) ==
    /\ txn[w].pc = "raised"
    /\ txn[w].outcome \in {"conflict", "rejected"}
    /\ fs.articles[txn[w].id].ver < MaxDeliveries
    /\ fs' = [fs EXCEPT !.articles[txn[w].id] = [@ EXCEPT !.ver = @ + 1]]
    /\ txn' = [txn EXCEPT ![w] =
         [Idle EXCEPT !.pc = "begin", !.id = txn[w].id, !.retryOf = txn[w].outcome]]
    /\ UNCHANGED <<commits, cacheVars>>

Next ==
    \/ \E w \in Workers, id \in ArticleIds, inp \in WriterInputs : WriteArticle(w, id, inp)
    \/ \E id \in ArticleIds, d \in GivenDocs : GiveDoc(id, d)
    \/ \E w \in Workers, id \in ArticleIds : CallApply(w, id)
    \/ \E w \in Workers : TxnRead(w)
    \/ \E w \in Workers : TxnCommit(w)
    \/ \E w \in Workers : CommitFail(w)
    \/ \E w \in Workers : Return(w)

----------------------------------------------------------------------------
(* The counters as the specification names them *)

CountryTotal(b, c) ==
    IF Has(fs.countries, <<b, c>>) THEN fs.countries[<<b, c>>].total ELSE 0

EntityTotal(b, e) ==
    IF Has(fs.entities, <<b, e>>) THEN fs.entities[<<b, e>>].total ELSE 0

EntityCountryBreakdown(b, e, c) ==
    IF Has(fs.entCountries, <<b, e, c>>) THEN fs.entCountries[<<b, e, c>>].count ELSE 0

CountryEntityBreakdown(b, c, e) ==
    IF Has(fs.countryEnts, <<b, c, e>>) THEN fs.countryEnts[<<b, c, e>>].count ELSE 0

\* the counts of all four families, without display names and types
Counts(s) ==
    [countries |-> [k \in DOMAIN s.countries |-> s.countries[k].total],
     entities |-> [k \in DOMAIN s.entities |-> s.entities[k].total],
     entCountries |-> [k \in DOMAIN s.entCountries |-> s.entCountries[k].count],
     countryEnts |-> [k \in DOMAIN s.countryEnts |-> s.countryEnts[k].count]]

\* the events whose processed marker is set
Processed == {id \in ArticleIds : fs.articles[id].exists /\ fs.articles[id].done}

\* the bucket and the country an event is counted under, and the slugs it mentions
BucketOf(id) == fs.articles[id].hour[1]
CountryKey(id) ==
    IF fs.articles[id].country = "" THEN "XX" ELSE Upper(fs.articles[id].country)
Mentions(id, e) ==
    \E i \in 1..Len(fs.articles[id].entities) :
        LET ent == fs.articles[id].entities[i]
        IN ent.tag = "dict" /\ ent.name # "" /\ slugify(ent.name) = e

AllBuckets == Hours \cup {k[1] : k \in DOMAIN fs.countries} \cup {k[1] : k \in DOMAIN fs.entities}
AllCountries == {"USA", "XX", "", "usa"} \cup {k[2] : k \in DOMAIN fs.countries}
AllSlugs == {"nasa", "faa", "entity"} \cup {k[2] : k \in DOMAIN fs.entities}

\* what one call of apply_for_article writes for a stored event (its bucket is
\* the one stored on it once it is processed)
SingleCallWrites(id) ==
    TxnBody(id, [fs.articles[id] EXCEPT !.done = FALSE], CHOOSE t \in Times : TRUE).writes

\* the database after one call for each event of S, starting from s
RECURSIVE Replay(_, _)
Replay(S, s) ==
    IF S = {} THEN s
    ELSE LET id == CHOOSE x \in S : TRUE
         IN Replay(S \ {id}, ApplyWrites(s, SingleCallWrites(id)))

----------------------------------------------------------------------------
(* Claims about the rollup engine *)

\* C1: idempotence under at-least-once delivery. However often apply_for_article
\* was called on the events, interleaved in any way, the counts of all four
\* families are those that exactly one call per processed event produces.
C1_Idempotence == Counts(fs) = Counts(Replay(Processed, EmptyFs))

\* C1 witness: a further call on an already processed event has returned, while
\* another event has been processed too.
C1_Witness ==
    \E w \in Workers, other \in ArticleIds :
        /\ txn[w].pc = "returned" /\ txn[w].outcome = "noop"
        /\ txn[w].id \in Processed /\ other \in Processed /\ other # txn[w].id
        /\ Len(fs.articles[txn[w].id].entities) > 0

\* C2: conservation. For every bucket b and entity e, the per-country cells of e
\* in b sum up to EntityTotal(b, e).
C2_Conservation ==
    \A b \in AllBuckets, e \in AllSlugs :
        LET cells == {k \in DOMAIN fs.entCountries : k[1] = b /\ k[2] = e}
        IN SumOver(cells, [k \in cells |-> fs.entCountries[k].count]) = EntityTotal(b, e)

\* C2 witness: an entity counted in two countries of one bucket.
C2_Witness ==
    \E b \in AllBuckets, e \in AllSlugs :
        /\ EntityCountryBreakdown(b, e, "USA") > 0
        /\ EntityCountryBreakdown(b, e, "XX") > 0
        /\ EntityTotal(b, e) >= 2

\* the part of the database a rollup may change: markers, stored buckets, counters
RollupState ==
    [markers |-> [id \in ArticleIds |-> fs.articles[id].done],
     buckets |-> [id \in ArticleIds |-> fs.articles[id].hour],
     mentions |-> fs.mentions,
     cells |-> [countries |-> fs.countries, entities |-> fs.entities,
                entCountries |-> fs.entCountries, countryEnts |-> fs.countryEnts]]

\* a step in which a transaction of some worker fails: the body raises, the store
\* rejects the commit, or the commit meets a conflict
FailingStep ==
    \E w \in Workers :
        /\ txn[w].pc \in {"begin", "commit"}
        /\ \/ txn'[w].pc = "raised"
           \/ txn[w].pc = "commit" /\ txn'[w].pc = "begin"

\* C3: all or nothing. A step in which a transaction fails changes no marker, no
\* stored bucket and no counter cell; and a step that changes any of them sets the
\* marker of exactly one event and applies all the increments of that event.
C3_AllOrNothing ==
    [][ /\ FailingStep => RollupState' = RollupState
        /\ (RollupState.markers' # RollupState.markers
                \/ RollupState.cells' # RollupState.cells) =>
             \E id \in ArticleIds, now \in Times :
                 /\ ~fs.articles[id].done /\ fs'.articles[id].done
                 /\ \A o \in ArticleIds \ {id} :
                        fs'.articles[o].done = fs.articles[o].done
                 /\ fs'.articles[id].hour = Some(HourOf(fs.articles[id], now))
                 /\ Counts(fs') =
                        Counts(ApplyWrites(fs, TxnBody(id, fs.articles[id], now).writes))
      ]_vars

\* C3 witness: the body raised while iterating the entities, after it had
\* buffered writes, and the event is unmarked.
C3_Witness ==
    \E w \in Workers :
        /\ txn[w].pc = "raised" /\ txn[w].outcome = "exception"
        /\ ~fs.articles[txn[w].id].done
        /\ Len(SingleCallWrites(txn[w].id)) > 3

\* C4: concurrent calls for one event. Over all calls, at most one transaction
\* commits for an event, and one has committed exactly when the marker is set.
C4_ExactlyOnce ==
    \A id \in ArticleIds :
        /\ commits[id] <= 1
        /\ (commits[id] = 1) <=> (id \in Processed)

\* C4 witness: a call lost the race, met a conflict, read again, saw the marker
\* and returned without writing.
C4_Witness ==
    \E w \in Workers :
        /\ txn[w].pc = "returned" /\ txn[w].outcome = "noop"
        /\ txn[w].attempts >= 1
        /\ commits[txn[w].id] = 1

\* C5: EntityTotal(b, e) is the number of distinct processed events of b that
\* mention e (one event counts once, also when two of its entities share a slug).
C5_EntityTotalCountsEvents ==
    \A b \in AllBuckets, e \in AllSlugs :
        EntityTotal(b, e) =
            Cardinality({id \in Processed : BucketOf(id) = b /\ Mentions(id, e)})

\* C6: CountryTotal(b, c) is the number of processed events of bucket b whose
\* country is c, an event without a country counting under "XX"; so the cells
\* of all buckets sum up to the number of processed events.
C6_CountryTotalCountsEvents ==
    /\ \A b \in AllBuckets, c \in AllCountries :
           CountryTotal(b, c) =
               Cardinality({id \in Processed : BucketOf(id) = b /\ CountryKey(id) = c})
    /\ SumOver(DOMAIN fs.countries, [k \in DOMAIN fs.countries |-> fs.countries[k].total])
           = Cardinality(Processed)

\* C6 witness: an event without a country and with two entities is counted once
\* under "XX", beside an event counted under "USA" in the same bucket.
C6_Witness ==
    \E id \in Processed :
        /\ fs.articles[id].country = ""
        /\ Len(fs.articles[id].entities) = 2
        /\ CountryTotal(BucketOf(id), "XX") = 1
        /\ CountryTotal(BucketOf(id), "USA") = 1

\* C16: reprocessing. An attempt that reads an event whose processed marker is
\* set makes the call return normally and writes nothing: no counter cell of
\* any family, no marker, no stored bucket, no article document changes.
C16_ReprocessNoWrite ==
    [][ \A w \in Workers :
          ( /\ txn[w].pc = "begin" /\ txn'[w].pc # "begin"
            /\ fs.articles[txn[w].id].exists
            /\ fs.articles[txn[w].id].done )
          => /\ txn'[w].pc = "returned"
             /\ txn'[w].outcome = "noop"
             /\ txn'[w].writes = <<>>
             /\ fs' = fs
             /\ commits' = commits
      ]_vars

\* C16 witness: a first attempt on a processed event with counted entities has
\* returned as a no-op.
C16_Witness ==
    \E w \in Workers :
        /\ txn[w].pc = "returned" /\ txn[w].outcome = "noop"
        /\ txn[w].attempts = 0
        /\ commits[txn[w].id] = 1
        /\ EntityTotal(BucketOf(txn[w].id), "nasa") >= 1
        /\ Mentions(txn[w].id, "nasa")

\* C17: a call on a missing event reference ends in an error that reaches the
\* caller, and changes no counter.
C17_MissingEventRaises ==
    \A w \in Workers :
        txn[w].outcome = "missing" => txn[w].pc = "raised"

\* C18: an event without a usable timestamp is dropped: it is never marked
\* processed and never counted.
C18_MalformedEventDropped ==
    \A id \in ArticleIds :
        (fs.articles[id].exists /\ fs.articles[id].time.kind # "ts")
            => ~fs.articles[id].done

\* the counter cell a buffered write increments: family and key
WriteCell(w) ==
    CASE w.kind = "country" -> <<"countries", <<w.hour, w.country>>>>
      [] w.kind = "entity" -> <<"entities", <<w.hour, w.eid>>>>
      [] w.kind = "entCountry" -> <<"entCountries", <<w.hour, w.eid, w.country>>>>
      [] w.kind = "countryEnt" -> <<"countryEnts", <<w.hour, w.country, w.eid>>>>
      [] OTHER -> <<"", <<>>>>

CounterFamilies == {"countries", "entities", "entCountries", "countryEnts"}

\* the value of a cell in the counts c (0 when the cell was never written)
CellValue(c, fam, k) == IF Has(c[fam], k) THEN c[fam][k] ELSE 0

\* C20: calls for different events. The article document of an event is written
\* only by steps on that event, and a commit whose event nobody wrote since it
\* was read succeeds whatever other events committed meanwhile (also on the same
\* counter cells); a commit adds to the current value of every cell the number
\* of increments the event makes on it, so no increment of another event is lost.
C20_DifferentEventsCommit ==
    [][ /\ \A id \in ArticleIds :
              fs'.articles[id].ver # fs.articles[id].ver =>
                  \/ ~fs.articles[id].exists
                  \/ \E w \in Workers : txn'[w] # txn[w] /\ txn'[w].id = id
        /\ \A w \in Workers :
              ( /\ txn[w].pc = "commit" /\ txn'[w].pc # "commit"
                /\ txn'[w].outcome # "rejected" )
              => LET id == txn[w].id
                     ws == txn[w].writes
                     Added(fam, k) ==
                         Cardinality({i \in DOMAIN ws : WriteCell(ws[i]) = <<fam, k>>})
                 IN /\ fs.articles[id].ver = txn[w].readVer =>
                          /\ txn'[w].outcome = "committed"
                          /\ fs'.articles[id].done
                    /\ txn'[w].outcome = "committed" =>
                          \A fam \in CounterFamilies :
                            \A k \in DOMAIN Counts(fs')[fam] \cup DOMAIN Counts(fs)[fam] :
                                CellValue(Counts(fs'), fam, k) =
                                    CellValue(Counts(fs), fam, k) + Added(fam, k)
      ]_vars

\* C20 witness: two calls on different events of one bucket, one country and one
\* entity are both in their first attempt and both committed; the shared cells
\* count both.
C20_Witness ==
    \E id1, id2 \in Processed :
        /\ id1 # id2
        /\ txn["w1"].id = id1 /\ txn["w2"].id = id2
        /\ \A w \in Workers :
               txn[w].pc = "returned" /\ txn[w].outcome = "committed" /\ txn[w].attempts = 0
        /\ BucketOf(id1) = BucketOf(id2)
        /\ CountryKey(id1) = CountryKey(id2)
        /\ Mentions(id1, "nasa") /\ Mentions(id2, "nasa")
        /\ CountryTotal(BucketOf(id1), CountryKey(id1)) = 2
        /\ EntityTotal(BucketOf(id1), "nasa") = 2
        /\ EntityCountryBreakdown(BucketOf(id1), "nasa", CountryKey(id1)) = 2

\* C25: the two breakdown families hold the same fact. For every bucket b,
\* entity e and country c, EntityCountryBreakdown(b, e, c) equals
\* CountryEntityBreakdown(b, c, e), and a cell is in one family exactly when it
\* is in the other.
C25_BreakdownsAgree ==
    /\ \A k \in DOMAIN fs.entCountries :
           /\ Has(fs.countryEnts, <<k[1], k[3], k[2]>>)
           /\ fs.countryEnts[<<k[1], k[3], k[2]>>].count = fs.entCountries[k].count
    /\ \A k \in DOMAIN fs.countryEnts :
           /\ Has(fs.entCountries, <<k[1], k[3], k[2]>>)
           /\ fs.entCountries[<<k[1], k[3], k[2]>>].count = fs.countryEnts[k].count
    /\ \A b \in AllBuckets, e \in AllSlugs, c \in AllCountries :
           EntityCountryBreakdown(b, e, c) = CountryEntityBreakdown(b, c, e)

\* C25 witness: two events of one bucket and one country mention the same
\* entity, a third cell of that country holds another entity once.
C25_Witness ==
    \E b \in AllBuckets :
        /\ EntityCountryBreakdown(b, "nasa", "USA") = 2
        /\ CountryEntityBreakdown(b, "USA", "nasa") = 2
        /\ CountryEntityBreakdown(b, "USA", "faa") = 1

\* C30: the display name and the type of an EntityTotal cell are those of the
\* event that created it: no step changes them in a cell that exists, a later
\* event with the same identifier changes only the count.
C30_NameAndTypeKept ==
    [][ \A k \in DOMAIN fs.entities :
            /\ Has(fs'.entities, k)
            /\ fs'.entities[k].entity = fs.entities[k].entity
            /\ fs'.entities[k].type = fs.entities[k].type
      ]_vars

\* the keys of a counter family whose cell is created or changed by a step
Touched(old, new) == {k \in DOMAIN new : ~Has(old, k) \/ new[k] # old[k]}

\* the buckets in which a step creates or changes a counter cell
TouchedBuckets ==
    {k[1] : k \in Touched(fs.countries, fs'.countries)
                  \cup Touched(fs.entities, fs'.entities)
                  \cup Touched(fs.entCountries, fs'.entCountries)
                  \cup Touched(fs.countryEnts, fs'.countryEnts)}

\* C31: the bucket of applyEvent. In the step that commits the rollup of an
\* unprocessed event, the bucket is the one stored on the event when there is
\* one, else the hour of the event's timestamp; every counter cell the step
\* creates or changes is of that one bucket, the event's country cell among
\* them, and the event record afterwards is processed and carries that bucket.
C31_BucketOfApply ==
    [][ \A id \in ArticleIds :
            commits'[id] # commits[id] =>
                LET a == fs.articles[id]
                    b == fs'.articles[id]
                IN /\ ~a.done /\ b.done /\ b.hour # None
                   /\ a.hour # None => b.hour = a.hour
                   /\ (a.hour = None /\ a.time.kind = "ts") =>
                         b.hour = Some(hour_bucket(a.time.t))
                   /\ TouchedBuckets = {b.hour[1]}
                   /\ b.hour[1] \in fs'.mentions
                   /\ <<b.hour[1], CountryOf(a)>> \in
                         Touched(fs.countries, fs'.countries)
      ]_vars

\* C31 witness: two events are processed in different buckets, one under the
\* bucket that was stored on it (it has no timestamp), one under the hour of its
\* timestamp.
C31_Witness ==
    \E id, jd \in ArticleIds :
        /\ id # jd
        /\ fs.articles[id].done /\ fs.articles[jd].done
        /\ fs.articles[id].time = NoTime
        /\ fs.articles[id].country = "usa"
        /\ fs.articles[id].hour = Some(hour_bucket(665))
        /\ CountryTotal(hour_bucket(665), "USA") = 1
        /\ fs.articles[jd].time = Ts(605)
        /\ fs.articles[jd].hour = Some(hour_bucket(605))
        /\ EntityTotal(hour_bucket(605), "nasa") = 1

\* C36: an entity is not counted in a country more often than there are events
\* in that country. For every bucket b, entity e and country c,
\* EntityCountryBreakdown(b, e, c) is at most CountryTotal(b, c).
C36_BreakdownAtMostCountryTotal ==
    \A k \in DOMAIN fs.entCountries :
        fs.entCountries[k].count <= CountryTotal(k[1], k[3])

\* NewsDataLoader.list_hours: the ids of the documents of /mentions that are ten
\* digits (hour_bucket prints ten digits for every time), in ascending order
RECURSIVE list_hours(_)
list_hours(docs) ==
    IF docs = {} THEN <<>>
    ELSE LET h == CHOOSE x \in docs : \A y \in docs : x <= y
         IN IF h \in Nat THEN <<h>> \o list_hours(docs \ {h})
            ELSE list_hours(docs \ {h})

\* the buckets that have a cell in one of the four counter families
CellBuckets ==
    {k[1] : k \in DOMAIN fs.countries \cup DOMAIN fs.entities
                  \cup DOMAIN fs.entCountries \cup DOMAIN fs.countryEnts}

\* C38: every bucket that has a counter cell has its document under /mentions,
\* so the list of hours offered to clients holds every bucket with a counter.
C38_BucketsListed ==
    /\ CellBuckets \subseteq fs.mentions
    /\ \A b \in CellBuckets : \E i \in DOMAIN list_hours(fs.mentions) :
           list_hours(fs.mentions)[i] = b

\* C38 witness: two buckets hold counters, one of them entity cells too, and
\* both are listed.
C38_Witness ==
    /\ Cardinality(CellBuckets) = 2
    /\ Len(list_hours(fs.mentions)) = 2
    /\ \E k \in DOMAIN fs.countryEnts : fs.countryEnts[k].count >= 1

----------------------------------------------------------------------------
(* The dashboard's article cache: SmartArticleCache over NewsDataLoader *)

\* A processed document of /articles: id is its place in the order of document
\* ids (the order of an unordered Firestore query), entityNameSlug holds the
\* entity names as write_article stores them.
Row(id, country, slugs, time) ==
    [id |-> id, hour |-> hour_bucket(time), country |-> country,
     entityNameSlug |-> slugs, time |-> time]

\* the articles of one hour in the order they are written and rolled up
Feed ==
    << Row(3, "USA", <<"NASA">>, 605),
       Row(1, "USA", <<"Nasa">>, 640),
       Row(4, "FRA", <<"NASA", "FAA">>, 650),
       Row(2, "USA", <<"FAA">>, 640),
       Row(5, "USA", <<"NASA">>, 655) >>

\* the collection after the first t articles
DbAt(t) == {Feed[i] : i \in 1..t}

Range(f) == {f[i] : i \in DOMAIN f}
Ids(rows) == {rows[i].id : i \in DOMAIN rows}
Min(a, b) == IF a < b THEN a ELSE b

\* SmartArticleCache._key: None and "" give the same key
Key(hour, country, entity) == <<hour, country, entity>>

\* SmartArticleCache._matches
Matches(article, country, entity) ==
    IF country # "" /\ article.country # country THEN FALSE
    ELSE IF entity # ""
         THEN LET slugs == Range(article.entityNameSlug)
                  ent_slug == Lower(entity)
                  lowset == {Lower(x) : x \in slugs}
              IN ~((ent_slug \notin lowset) /\ (entity \notin slugs))
         ELSE TRUE

\* sorted(rows, key=time, reverse=True): stable, rows of equal time keep their order
RECURSIVE SortByTimeDesc(_)
SortByTimeDesc(rows) ==
    IF rows = <<>> THEN <<>>
    ELSE LET n == Len(rows)
             r == rows[n]
             front == SortByTimeDesc(SubSeq(rows, 1, n - 1))
             NotLater(x) == x.time >= r.time
             Later(x) == x.time < r.time
         IN SelectSeq(front, NotLater) \o <<r>> \o SelectSeq(front, Later)

\* a mutant: rows of equal time are put in the order of their ids, latest id
\* first, not in the order they have in the list
SortTrimTiesById(rows, limit) ==
    LET n == Len(rows)
        Before(j, i) ==
            \/ rows[j].time > rows[i].time
            \/ rows[j].time = rows[i].time /\ rows[j].id > rows[i].id
        rank(i) == Cardinality({j \in 1..n : Before(j, i)}) + 1
        sorted == [k \in 1..n |-> rows[CHOOSE i \in 1..n : rank(i) = k]]
    IN SubSeq(sorted, 1, Min(limit, n))

\* SmartArticleCache._sort_trim
sort_trim(rows, limit) ==
    LET sorted == SortByTimeDesc(rows)
    IN SubSeq(sorted, 1, Min(limit, Len(sorted)))

\* a snapshot argument is None or Some(mapping); an empty mapping is falsy
Truthy(opt) == opt # None /\ opt[1] # <<>>
DictGet(d, k, default) == IF Has(d, k) THEN d[k] ELSE default

\* dict(global_top_entities).get(entity, 0): the last pair of a name wins
TopsGet(tops, entity) ==
    LET hits == {i \in DOMAIN tops : tops[i][1] = entity}
    IN IF hits = {} THEN 0
       ELSE tops[CHOOSE i \in hits : \A j \in hits : j <= i][2]

\* SmartArticleCache._expected_count
expected_count(country, entity, totals_by_iso, entity_breakdown_by_iso, global_top_entities) ==
    IF entity # "" /\ country # ""
    THEN IF Truthy(entity_breakdown_by_iso)
         THEN Some(DictGet(entity_breakdown_by_iso[1], country, 0))
         ELSE None
    ELSE IF entity # "" /\ country = ""
    THEN IF Truthy(global_top_entities)
         THEN Some(TopsGet(global_top_entities[1], entity))
         ELSE None
    ELSE IF country # "" /\ entity = ""
    THEN IF Truthy(totals_by_iso)
         THEN Some(DictGet(totals_by_iso[1], country, 0))
         ELSE None
    ELSE None

\* the documents of a set in the order of their ids
RECURSIVE ById(_)
ById(S) ==
    IF S = {} THEN <<>>
    ELSE LET r == CHOOSE x \in S : \A y \in S : x.id <= y.id
         IN <<r>> \o ById(S \ {r})

\* a mutant: the query is not limited
LoadArticlesNoLimit(db, hour, country, entity, limit) ==
    LET hit == {r \in db : /\ r.hour = hour
                           /\ country # "" => r.country = country
                           /\ entity # "" => entity \in Range(r.entityNameSlug)}
    IN ById(hit)

\* NewsDataLoader.load_articles: equality filters on hour and country,
\* array_contains on entityNameSlug, the first `limit` documents of the query
load_articles(db, hour, country, entity, limit) ==
    LET hit == {r \in db : /\ r.hour = hour
                           /\ country # "" => r.country = country
                           /\ entity # "" => entity \in Range(r.entityNameSlug)}
        rows == ById(hit)
    IN SubSeq(rows, 1, Min(limit, Len(rows)))

\* a mutant: any non-empty filtered parent is enough
EnoughIfAny(filtered, expected) == Len(filtered) > 0

\* len(filtered) >= expected
Enough(filtered, expected) == Len(filtered) >= (IF expected = None THEN 0 ELSE expected[1])

\* a mutant: a parent is tried also when expected is unknown
ParentUsableAnyExpected(expected, pkey, st) == Has(st, pkey)

\* expected is not None and pkey in self.store
ParentUsable(expected, pkey, st) == expected # None /\ Has(st, pkey)

\* a mutant: the parent rows are filtered by country only
FilteredByCountry(parent_rows, country, entity) ==
    LET Keep(r) == country # "" => r.country = country
    IN SelectSeq(parent_rows, Keep)

\* [r for r in parent_rows if self._matches(r, country, entity)]
Filtered(parent_rows, country, entity) ==
    LET Keep(r) == Matches(r, country, entity)
    IN SelectSeq(parent_rows, Keep)

\* a mutant: the filtered rows are returned but not stored
ReuseWithoutStore(st, key, filtered, per_page) ==
    [store |-> st, result |-> sort_trim(filtered, per_page), path |-> "reuse",
     fetched |-> None]

\* self.store[key] = filtered; return self._sort_trim(filtered, per_page)
Reuse(st, key, filtered, per_page) ==
    [store |-> Put(st, key, filtered), result |-> sort_trim(filtered, per_page),
     path |-> "reuse", fetched |-> None]

\* a mutant: the entity-only parent is tried first
ParentKeysEntityFirst(hour, country, entity) ==
    IF country # "" /\ entity # ""
    THEN <<Key(hour, "", entity), Key(hour, country, "")>>
    ELSE <<>>

\* a mutant: a query with one filter has the unfiltered key as its parent
ParentKeysAlways(hour, country, entity) ==
    IF country # "" /\ entity # ""
    THEN <<Key(hour, country, ""), Key(hour, "", entity)>>
    ELSE IF country # "" \/ entity # ""
    THEN <<Key(hour, "", "")>>
    ELSE <<>>

\* the parent keys of a query with both filters, in the order they are tried
ParentKeys(hour, country, entity) ==
    IF country # "" /\ entity # ""
    THEN <<Key(hour, country, ""), Key(hour, "", entity)>>
    ELSE <<>>

\* the first parent, in order, that is usable and holds enough matching rows
\* (0 when there is none)
FirstParent(st, pkeys, expected, country, entity) ==
    LET ok == {i \in DOMAIN pkeys :
                  /\ ParentUsable(expected, pkeys[i], st)
                  /\ Enough(Filtered(st[pkeys[i]], country, entity), expected)}
    IN IF ok = {} THEN 0 ELSE CHOOSE i \in ok : \A j \in ok : i <= j

\* a mutant: the stored entry is returned as it is
ExactHitAsStored(st, key, per_page) ==
    [store |-> st, result |-> st[key], path |-> "exact", fetched |-> None]

\* a mutant: an entry is dropped once it has been read
ExactHitEvicts(st, key, per_page) ==
    [store |-> [k \in DOMAIN st \ {key} |-> st[k]],
     result |-> sort_trim(st[key], per_page), path |-> "exact", fetched |-> None]

\* if key in self.store: return self._sort_trim(self.store[key], per_page)
ExactHit(st, key, per_page) ==
    [store |-> st, result |-> sort_trim(st[key], per_page), path |-> "exact",
     fetched |-> None]

\* a mutant: the list is sorted and trimmed before it is stored
FallbackStoresSorted(st, key, fetched, call, per_page) ==
    [store |-> Put(st, key, sort_trim(fetched, per_page)),
     result |-> sort_trim(fetched, per_page), path |-> "fetch", fetched |-> Some(call)]

\* self.store[key] = fetched or []; return self._sort_trim(self.store[key], per_page)
Fallback(st, key, fetched, call, per_page) ==
    [store |-> Put(st, key, fetched), result |-> sort_trim(fetched, per_page),
     path |-> "fetch", fetched |-> Some(call)]

\* a mutant: a failed fetch is cached as an empty list
LoaderRaisesCached(st, key, call) ==
    [store |-> Put(st, key, <<>>), result |-> <<>>, path |-> "raise",
     fetched |-> Some(call)]

\* loader.load_articles raises: the exception leaves get before the assignment
\* to self.store[key]
LoaderRaises(st, key, call) ==
    [store |-> st, result |-> <<>>, path |-> "raise", fetched |-> Some(call)]

\* SmartArticleCache.get on cache st and collection db, the loader answering (up)
\* or raising: the cache after the call, the list returned, the path taken and
\* the loader call made (if any)
get(st, db, up, hour, country, entity, totals_by_iso, entity_breakdown_by_iso, global_top_entities, per_page) ==
    LET key == Key(hour, country, entity)
        expected == expected_count(country, entity, totals_by_iso,
                                   entity_breakdown_by_iso, global_top_entities)
        pkeys == ParentKeys(hour, country, entity)
        p == FirstParent(st, pkeys, expected, country, entity)
        call == <<hour, country, entity, per_page>>
    IN IF hour = 0
       THEN [store |-> st, result |-> <<>>, path |-> "nohour", fetched |-> None]
       ELSE IF Has(st, key)
       THEN ExactHit(st, key, per_page)
       ELSE IF p # 0
       THEN Reuse(st, key, Filtered(st[pkeys[p]], country, entity), per_page)
       ELSE IF ~up
       THEN LoaderRaises(st, key, call)
       ELSE Fallback(st, key, load_articles(db, hour, country, entity, per_page),
                     call, per_page)

\* NewsDataLoader.country_breakdown_for_entity on the rollup of db: the cells
\* /mentions/{hour}/entities/{slugify(entity_name)}/countries/*
country_breakdown_for_entity(db, hour, entity_name) ==
    LET mention == {r \in db : /\ r.hour = hour
                               /\ \E x \in Range(r.entityNameSlug) :
                                      slugify(x) = slugify(entity_name)}
        isos == {r.country : r \in mention}
    IN [c \in isos |-> Cardinality({r \in mention : r.country = c})]

\* NewsDataLoader.country_totals on the rollup of db
country_totals(db, hour) ==
    LET rows == {r \in db : r.hour = hour}
        isos == {r.country : r \in rows}
    IN [c \in isos |-> Cardinality({r \in rows : r.country = c})]

\* The stores the dashboard passes to the cache: the counters as they were after
\* t articles (t may be older or newer than the collection the loader reads);
\* load_entity_breakdown gives {} without an active topic.
Snapshot(t, hour, entity) ==
    [totals |-> Some(country_totals(DbAt(t), hour)),
     breakdown |-> Some(IF entity = "" THEN <<>>
                        ELSE country_breakdown_for_entity(DbAt(t), hour, entity)),
     tops |-> Some(<< <<"NASA", t>> >>)]

\* a caller that holds no snapshot passes None
NoSnapshot == [totals |-> None, breakdown |-> None, tops |-> None]

\* the topic that was active before the one asked for
PreviousTopic == "FAA"

\* update_articles_list takes entity-breakdown-store as State while
\* load_entity_breakdown rewrites it on the same change of topic: the call may
\* be given the breakdown of the previous topic
StaleTopicSnapshot(t, hour, entity) ==
    [Snapshot(t, hour, entity) EXCEPT
        !.breakdown = Some(country_breakdown_for_entity(DbAt(t), hour, PreviousTopic))]

\* the articles with which the breakdown of the previous topic changes
StaleTimes ==
    {t \in 1..Len(Feed) : PreviousTopic \in Range(Feed[t].entityNameSlug)}

Snapshots(hour, entity) ==
    {NoSnapshot} \cup {Snapshot(t, hour, entity) : t \in 0..Len(Feed)}
    \cup (IF entity = "" THEN {}
          ELSE {StaleTopicSnapshot(t, hour, entity) : t \in StaleTimes})

PageSizes == 1..MaxPage
QueryHours == {0, hour_bucket(605)}
QueryCountries == {"", "USA"}
QueryEntities == {"", "NASA"}

NoCall ==
    [key |-> Key(0, "", ""), per_page |-> 0, expected |-> None, path |-> "",
     result |-> <<>>, fetched |-> None, direct |-> <<>>, accurate |-> FALSE,
     afterFailure |-> FALSE, absent |-> FALSE]

\* the threads of the dashboard's server that run callbacks
Threads == {"t1", "t2"}

NoGet == [pc |-> "idle", key |-> Key(0, "", ""), per_page |-> 0]

\* no aggregate query asked yet
NoAnswer == [query |-> "", hour |-> 0, arg |-> "", limit |-> 0, rows |-> <<>>]

\* what update_articles_list passed to get: the selection and what the stores
\* it passed had been loaded for
NoPass == [hour |-> 0, topic |-> "", totalsOf |-> 0, breakdownOf |-> <<0, "">>]

\* the layout's stores: hour-store None, selected-iso3 None, active-topic None,
\* country-totals-store {}, global-top-entities-store [], entity-breakdown-store
\* {}; totalsOf and breakdownOf name the selection a store was loaded for
NoUi ==
    [hour |-> 0, iso3 |-> "", topic |-> "",
     totals |-> Some(<<>>), tops |-> Some(<<>>), breakdown |-> Some(<<>>),
     totalsOf |-> 0, breakdownOf |-> <<0, "">>,
     pending |-> {}, passed |-> NoPass]

CacheInit ==
    /\ articleDb = {}
    /\ store = <<>>
    /\ last = NoCall
    /\ failed = None
    /\ threads = [t \in Threads |-> NoGet]
    /\ answer = NoAnswer
    /\ ui = NoUi

\* the next article is written and rolled up: it becomes visible to the loader
Arrive ==
    /\ last = NoCall
    /\ Cardinality(articleDb) < Len(Feed)
    /\ articleDb' = articleDb \cup {Feed[Cardinality(articleDb) + 1]}
    /\ UNCHANGED <<store, last, failed, threads, answer, ui, rollupVars>>

\* update_articles_list -> article_cache.get(...): the whole call, with the
\* loader answering (up) or raising; `last` keeps its arguments and what it
\* returned until the caller has taken the result, `failed` the key of a call
\* whose fetch raised until a later call for that key ends without raising,
\* `absent` whether the breakdown it was given is non-empty and lacks the country
GetUpTo(entries, hour, country, entity, snap, per_page, up) ==
    LET g == get(store, articleDb, up, hour, country, entity, snap.totals, snap.breakdown, snap.tops, per_page)
        now == Snapshot(Cardinality(articleDb), hour, entity)
        key == Key(hour, country, entity)
    IN /\ last = NoCall
       /\ Cardinality(DOMAIN g.store) <= entries
       /\ store' = g.store
       /\ last' = [key |-> Key(hour, country, entity), per_page |-> per_page,
                   expected |-> expected_count(country, entity, snap.totals,
                                               snap.breakdown, snap.tops),
                   path |-> g.path, result |-> g.result, fetched |-> g.fetched,
                   direct |-> load_articles(articleDb, hour, country, entity, per_page),
                   accurate |-> snap.breakdown = now.breakdown,
                   afterFailure |-> (failed = Some(key)),
                   absent |-> (Truthy(snap.breakdown) /\ ~Has(snap.breakdown[1], country))]
       /\ failed' = IF g.path = "raise" THEN Some(key)
                    ELSE IF failed = Some(key) THEN None
                    ELSE failed
       /\ UNCHANGED <<articleDb, threads, answer, rollupVars>>

\* the call on a cache that is let grow to MaxEntries entries
Get(hour, country, entity, snap, per_page, up) ==
    GetUpTo(MaxEntries, hour, country, entity, snap, per_page, up)

\* the caller renders the list
Rendered ==
    /\ last # NoCall
    /\ last' = NoCall
    /\ UNCHANGED <<articleDb, store, failed, threads, answer, ui, rollupVars>>

CacheNext ==
    \/ Arrive
    \/ \E hour \in QueryHours, country \in QueryCountries, entity \in QueryEntities,
          per_page \in PageSizes :
          \E snap \in Snapshots(hour, entity), up \in BOOLEAN :
              Get(hour, country, entity, snap, per_page, up) /\ UNCHANGED ui
    \/ Rendered

----------------------------------------------------------------------------
(* Claims about the article cache *)

\* the query of the call recorded in `last`
LastHour == last.key[1]
LastCountry == last.key[2]
LastEntity == last.key[3]

\* the parents of a query that the cache st holds, and the number of rows of a
\* parent that match both filters
HeldParents(st, key) ==
    {pk \in Range(ParentKeys(key[1], key[2], key[3])) : Has(st, pk)}
MatchCount(st, pk, key) ==
    Cardinality({i \in DOMAIN st[pk] : Matches(st[pk][i], key[2], key[3])})

\* C7: cache correctness of superset reuse. Whenever get answers through the
\* superset-reuse path, with expected taken from a snapshot that holds the
\* current counters, the identifiers it returns are those a direct loader fetch
\* for the same bucket, country, entity and page size returns.
C7_ReuseEqualsDirectFetch ==
    (last.path = "reuse" /\ last.accurate) => Ids(last.result) = Ids(last.direct)

\* C8: monotonic reuse safety. An answer through superset reuse has expected known
\* and holds (and stores under the exact key) at least expected matching rows, and
\* when every held parent has fewer matching rows than expected the answer comes
\* from a loader fetch.
C8_NoReuseBelowExpected ==
    /\ last.path = "reuse" =>
         /\ last.expected # None
         /\ Has(store, last.key)
         /\ Len(store[last.key]) >= last.expected[1]
         /\ \A i \in DOMAIN store[last.key] :
                Matches(store[last.key][i], LastCountry, LastEntity)
         /\ last.result = sort_trim(store[last.key], last.per_page)
    /\ ( /\ last.path \in {"reuse", "fetch"}
         /\ last.expected # None
         /\ \A pk \in HeldParents(store, last.key) :
                MatchCount(store, pk, last.key) < last.expected[1] )
         => (last.path = "fetch" /\ last.fetched # None)

\* C8 witness: a held parent has 1 matching row, 2 are expected, and get fetched.
C8_Witness ==
    /\ last.path = "fetch"
    /\ last.expected = Some(2)
    /\ \E pk \in HeldParents(store, last.key) : MatchCount(store, pk, last.key) = 1

SufficientParents(st, key, n) ==
    {i \in DOMAIN ParentKeys(key[1], key[2], key[3]) :
        LET pk == ParentKeys(key[1], key[2], key[3])[i]
        IN Has(st, pk) /\ MatchCount(st, pk, key) >= n}

\* C10: superset reuse hit. A call that finds the exact key absent, both filters
\* set, expected known and a held parent with at least expected matching rows
\* returns the matching rows of the first such parent, sorted and trimmed,
\* stores them under the exact key, changes no other key and fetches nothing.
C10_ReuseHit ==
    [][ ( /\ last = NoCall /\ last' # NoCall
          /\ last'.key[1] # 0
          /\ ~Has(store, last'.key)
          /\ last'.expected # None
          /\ SufficientParents(store, last'.key, last'.expected[1]) # {} )
        => LET key == last'.key
               ok == SufficientParents(store, key, last'.expected[1])
               first == CHOOSE i \in ok : \A j \in ok : i <= j
               rows == store[ParentKeys(key[1], key[2], key[3])[first]]
               Both(r) == (r.country = key[2]) /\
                          (Lower(key[3]) \in {Lower(x) : x \in Range(r.entityNameSlug)})
               matching == SelectSeq(rows, Both)
           IN /\ last'.path = "reuse"
              /\ last'.fetched = None
              /\ DOMAIN store' = DOMAIN store \cup {key}
              /\ \A k \in DOMAIN store : store'[k] = store[k]
              /\ store'[key] = matching
              /\ Ids(last'.result) \subseteq Ids(matching)
              /\ Len(last'.result) = Min(last'.per_page, Len(matching))
              /\ \A i \in 1..(Len(last'.result) - 1) :
                     last'.result[i].time >= last'.result[i + 1].time
      ]_vars

\* C10 witness: a call answered from a parent that holds more rows than match,
\* with exactly the expected number (at least one) matching.
C10_Witness ==
    /\ last.path = "reuse"
    /\ Has(store, last.key)
    /\ last.expected = Some(Len(store[last.key]))
    /\ Len(store[last.key]) >= 1
    /\ \E pk \in HeldParents(store, last.key) : Len(store[pk]) > Len(store[last.key])

\* C11: a stale snapshot never makes get return an incomplete result. A call with
\* both filters set and a snapshot that differs from the current counters, when
\* it answers through superset reuse, returns at least min(per_page, number of
\* stored records matching the filters) rows (last.direct holds that many).
C11_StaleNeverIncomplete ==
    ( /\ last.path = "reuse"
      /\ LastCountry # "" /\ LastEntity # ""
      /\ ~last.accurate )
    => Len(last.result) >= Len(last.direct)

\* the event times of a list of rows, in order
TimesOf(rows) == [i \in DOMAIN rows |-> rows[i].time]

\* all stored records of the collection that match the filters of the last call
StoredMatching ==
    load_articles(articleDb, LastHour, LastCountry, LastEntity, Cardinality(articleDb))

\* C12: most-recent-N. Whatever path answers (loader fetch on a cold cache, exact
\* hit or superset reuse later), get returns the per_page records with the
\* latest event times among all stored records matching the filters, all of
\* them when fewer match.
C12_MostRecentN ==
    last.path \in {"fetch", "exact", "reuse"} =>
        TimesOf(last.result) = TimesOf(sort_trim(StoredMatching, last.per_page))

\* rows is lst ordered by event time, latest first, and cut to n rows
IsLatestOf(rows, lst, n) ==
    /\ Len(rows) = Min(n, Len(lst))
    /\ Ids(rows) \subseteq Ids(lst)
    /\ Cardinality(Ids(rows)) = Len(rows)
    /\ \A i \in 1..(Len(rows) - 1) : rows[i].time >= rows[i + 1].time
    /\ \A i \in DOMAIN rows, j \in DOMAIN lst :
           lst[j].id \notin Ids(rows) => lst[j].time <= rows[i].time

\* a step that is a call of get for a bucket
GetStep == last = NoCall /\ last' # NoCall /\ last'.key[1] # 0

\* C13: exact-match fast path. A call that finds an entry under the exact key
\* returns that entry sorted by event time, latest first, and trimmed to
\* per_page, whatever the snapshot says, calls no loader and leaves the cache as
\* it was.
C13_ExactHit ==
    [][ (GetStep /\ Has(store, last'.key)) =>
            /\ last'.path = "exact"
            /\ IsLatestOf(last'.result, store[last'.key], last'.per_page)
            /\ last'.fetched = None
            /\ store' = store
      ]_vars

\* C13 witness: an exact hit on an entry that is longer than the page and not in
\* time order, while the snapshot expects more rows than the entry holds.
C13_Witness ==
    /\ last.path = "exact"
    /\ Len(store[last.key]) > last.per_page
    /\ store[last.key] # SortByTimeDesc(store[last.key])
    /\ last.expected # None
    /\ last.expected[1] > Len(store[last.key])

\* C14: fallback path. A call that finds neither the exact key nor a sufficient
\* parent, the loader answering, makes one loader fetch for (hour, country,
\* entity) with limit per_page, stores the list fetched as it is under the exact
\* key (an empty list when nothing matches), returns it sorted and trimmed, and
\* creates or changes no other key.
C14_Fallback ==
    [][ ( /\ GetStep
          /\ ~Has(store, last'.key)
          /\ \/ last'.expected = None
             \/ SufficientParents(store, last'.key, last'.expected[1]) = {}
          /\ last'.path # "raise" )
        => LET key == last'.key
               rows == load_articles(articleDb, key[1], key[2], key[3], last'.per_page)
           IN /\ last'.path = "fetch"
              /\ last'.fetched = Some(<<key[1], key[2], key[3], last'.per_page>>)
              /\ DOMAIN store' = DOMAIN store \cup {key}
              /\ store'[key] = rows
              /\ \A k \in DOMAIN store : store'[k] = store[k]
              /\ IsLatestOf(last'.result, rows, last'.per_page)
      ]_vars

\* C14 witness: a fetch whose list is stored in the order fetched (not the time
\* order), beside an entry that an earlier fetch stored as an empty list.
C14_Witness ==
    /\ last.path = "fetch"
    /\ store[last.key] # SortByTimeDesc(store[last.key])
    /\ \E k \in DOMAIN store : k # last.key /\ store[k] = <<>>

\* C15: a failed fallback fetch. A call whose loader fetch raises ends with the
\* error at the caller and leaves the cache exactly as it was, the exact key
\* still absent; the key stays absent until a later call for it is answered, and
\* that later call asks the loader again (or filters a parent): it never returns
\* a cached error or empty list.
C15_FailedFetch ==
    [][ /\ (GetStep /\ last'.path = "raise") =>
              /\ store' = store
              /\ ~Has(store', last'.key)
              /\ last'.fetched =
                    Some(<<last'.key[1], last'.key[2], last'.key[3], last'.per_page>>)
              /\ failed' = Some(last'.key)
        /\ failed # None => ~Has(store, failed[1])
        /\ (GetStep /\ failed = Some(last'.key)) =>
              /\ last'.path \in {"fetch", "raise", "reuse"}
              /\ last'.path = "fetch" =>
                    /\ last'.fetched # None
                    /\ store'[last'.key] =
                          load_articles(articleDb, last'.key[1], last'.key[2],
                                        last'.key[3], last'.per_page)
      ]_vars

\* C15 witness: after a failed fetch for a key, with other entries in the cache,
\* a later call for the same key fetched again and returned rows.
C15_Witness ==
    /\ last.afterFailure
    /\ last.path = "fetch"
    /\ Len(last.result) >= 1
    /\ Cardinality(DOMAIN store) >= 2

\* C26: when both country and entity are set and the country is absent from
\* the breakdown snapshot given to get, a call that misses the exact key does not
\* take the superset-reuse path: it goes to the loader.
C26_AbsentCountryFetches ==
    ( /\ LastCountry # ""
      /\ LastEntity # ""
      /\ last.absent
      /\ last.path # "exact" )
    => last.path \in {"fetch", "raise"}

\* C27: superset reuse is for queries with both filters only. A call with only
\* a country, only an entity or neither never answers from another key: when the
\* exact key is held it answers from that entry, and when it is not held it
\* calls the loader for its own query and (the loader answering) stores and
\* returns what the loader gave, whatever the snapshot and the cache hold.
C27_ReuseOnlyWithBothFilters ==
    [][ (GetStep /\ (last'.key[2] = "" \/ last'.key[3] = "")) =>
            LET key == last'.key
                call == <<key[1], key[2], key[3], last'.per_page>>
            IN /\ last'.path # "reuse"
               /\ Has(store, key) =>
                     /\ last'.fetched = None
                     /\ last'.result = sort_trim(store[key], last'.per_page)
               /\ ~Has(store, key) =>
                     /\ last'.path \in {"fetch", "raise"}
                     /\ last'.fetched = Some(call)
                     /\ last'.path = "fetch" =>
                           /\ store'[key] = load_articles(articleDb, key[1], key[2],
                                                          key[3], last'.per_page)
                           /\ last'.result = sort_trim(store'[key], last'.per_page)
      ]_vars

\* C27 witness: a country-only call fetched although the unfiltered key of the
\* bucket is held with as many rows of that country as the snapshot expects.
C27_Witness ==
    /\ last.path = "fetch"
    /\ LastCountry # ""
    /\ LastEntity = ""
    /\ last.expected # None
    /\ last.expected[1] >= 1
    /\ Has(store, Key(LastHour, "", ""))
    /\ MatchCount(store, Key(LastHour, "", ""), last.key) >= last.expected[1]

\* the place of a row in a list of rows with distinct ids
PlaceIn(lst, r) == CHOOSE i \in DOMAIN lst : lst[i].id = r.id

\* C28: every list get returns has at most per_page rows, all of the entry
\* stored under the key of the call, in the order of event time, latest first,
\* and rows of equal event time are in the order they have in the stored entry.
C28_SortedTrimmedStable ==
    /\ Len(last.result) <= last.per_page
    /\ last.path \in {"exact", "fetch", "reuse"} =>
          LET entry == store[last.key]
              rows == last.result
          IN /\ Ids(rows) \subseteq Ids(entry)
             /\ \A i, j \in DOMAIN rows :
                   i < j =>
                      /\ rows[i].time >= rows[j].time
                      /\ rows[i].time = rows[j].time =>
                            PlaceIn(entry, rows[i]) < PlaceIn(entry, rows[j])

\* C28 witness: a call answered from an entry that holds two rows of equal
\* event time returns both.
C28_Witness ==
    /\ last.path = "exact"
    /\ Len(last.result) = 2
    /\ last.result[1].time = last.result[2].time
    /\ last.result[1].id # last.result[2].id

\* sub is lst with some rows left out
IsSubList(sub, lst) ==
    LET In(r) == r \in Range(sub)
    IN sub = SelectSeq(lst, In)

\* C29 as stated: an entry holds at most as many rows as the page size of the
\* call that created it, also when that call created it by superset reuse.
C29_BoundedByCreatingCall ==
    [][ (GetStep /\ ~Has(store, last'.key) /\ Has(store', last'.key)) =>
            Len(store'[last'.key]) <= last'.per_page
      ]_vars

\* C29, amended: an entry created by a loader fetch holds at most as many rows
\* as the page size of that call; an entry created by superset reuse is a
\* sub-list of a parent entry held before the call, so it is no longer than its
\* parent (it may be longer than the page size of the reusing call); a call
\* changes no entry that exists, so no entry ever holds more rows than the
\* largest page size asked for.
C29_BoundedByFetch ==
    [][ GetStep =>
            LET key == last'.key
            IN /\ \A k \in DOMAIN store : Has(store', k) /\ store'[k] = store[k]
               /\ last'.path = "fetch" => Len(store'[key]) <= last'.per_page
               /\ last'.path = "reuse" =>
                     \E pk \in HeldParents(store, key) :
                         /\ IsSubList(store'[key], store[pk])
                         /\ Len(store'[key]) <= Len(store[pk])
               /\ \A k \in DOMAIN store' : Len(store'[k]) <= MaxPage
      ]_vars

\* C29 witness: superset reuse created an entry that holds more rows than the
\* page size of the call that created it.
C29_Witness ==
    /\ last.path = "reuse"
    /\ Len(store[last.key]) > last.per_page
    /\ \E pk \in HeldParents(store, last.key) : IsSubList(store[last.key], store[pk])

\* C33: cache entries are write-once. No step removes a key or changes the list
\* stored under it, and a get for a key that is held calls no loader, whatever
\* the snapshot says and whatever the collection holds by then.
C33_WriteOnce ==
    [][ /\ \A k \in DOMAIN store : Has(store', k) /\ store'[k] = store[k]
        /\ (GetStep /\ Has(store, last'.key)) => last'.fetched = None
      ]_vars

\* C33 witness: a get answered from an entry that a direct fetch would no longer
\* give, under a snapshot that expects more rows than the entry holds.
C33_Witness ==
    /\ last.path = "exact"
    /\ last.fetched = None
    /\ store[last.key] # load_articles(articleDb, LastHour, LastCountry, LastEntity,
                                       Len(Feed))
    /\ Len(store[last.key]) < Len(last.direct)
    /\ last.expected # None
    /\ last.expected[1] > Len(store[last.key])

\* row r belongs to the query of key k: its bucket, its country when one is
\* asked for, and an entity of the identifier asked for among those it mentions
Belongs(r, k) ==
    /\ r.hour = k[1]
    /\ k[2] # "" => r.country = k[2]
    /\ k[3] # "" => \E x \in Range(r.entityNameSlug) : slugify(x) = slugify(k[3])

\* C34: cache soundness. Every row stored under a key belongs to the bucket of
\* the key, has its country when the key has one and mentions its entity when
\* the key has one; so does every row get returns for the key it was asked.
C34_Soundness ==
    /\ \A k \in DOMAIN store : \A i \in DOMAIN store[k] : Belongs(store[k][i], k)
    /\ \A i \in DOMAIN last.result : Belongs(last.result[i], last.key)

\* C34 witness: superset reuse stored rows under a key with both filters from a
\* country-only parent that also holds a row of another entity.
C34_Witness ==
    /\ last.path = "reuse"
    /\ Len(store[last.key]) >= 1
    /\ Len(last.result) >= 1
    /\ Has(store, Key(LastHour, LastCountry, ""))
    /\ \E i \in DOMAIN store[Key(LastHour, LastCountry, "")] :
           ~Belongs(store[Key(LastHour, LastCountry, "")][i], last.key)

----------------------------------------------------------------------------
Init == RollupInit /\ CacheInit

Spec == Init /\ [][Next]_vars

CacheSpec == Init /\ [][CacheNext]_vars

----------------------------------------------------------------------------
(* The aggregate queries of the dashboard: NewsDataLoader over /mentions *)

\* the largest limit asked for (the dashboard asks for 20)
MaxLimit == 2

\* the order of document ids (strings) among the entity ids that occur
SlugRank(e) ==
    CASE e = "entity" -> 1
      [] e = "faa" -> 2
      [] e = "nasa" -> 3
      [] OTHER -> 0

\* a mutant: no order_by, the documents come in the order of their ids
ByDocumentId(S, count) ==
    LET Before(a, b) == SlugRank(a) < SlugRank(b)
        Pick(T) == CHOOSE a \in T : \A b \in T \ {a} : Before(a, b)
        F[T \in SUBSET S] ==
            IF T = {} THEN <<>> ELSE <<Pick(T)>> \o F[T \ {Pick(T)}]
    IN F[S]

\* .order_by(field, direction=DESCENDING): the documents S by count, largest
\* first; documents of equal count follow the order of their ids, descending too
ByCountDesc(S, count) ==
    LET Before(a, b) ==
            \/ count[a] > count[b]
            \/ count[a] = count[b] /\ SlugRank(a) > SlugRank(b)
        Pick(T) == CHOOSE a \in T : \A b \in T \ {a} : Before(a, b)
        F[T \in SUBSET S] ==
            IF T = {} THEN <<>> ELSE <<Pick(T)>> \o F[T \ {Pick(T)}]
    IN F[S]

\* data[name] = total for each document in turn: a name met again keeps its
\* place and takes the new value
RECURSIVE DictOf(_, _)
DictOf(pairs, acc) ==
    IF pairs = <<>> THEN acc
    ELSE LET p == Head(pairs)
             at == {i \in DOMAIN acc : acc[i][1] = p[1]}
         IN DictOf(Tail(pairs),
                   IF at = {} THEN Append(acc, p)
                   ELSE [i \in DOMAIN acc |-> IF i \in at THEN p ELSE acc[i]])

\* pd.Series(data).sort_values(ascending=False) on pairs <<name, count>>; pairs
\* of equal count keep their places
RECURSIVE SortValuesDesc(_)
SortValuesDesc(pairs) ==
    IF pairs = <<>> THEN <<>>
    ELSE LET n == Len(pairs)
             r == pairs[n]
             front == SortValuesDesc(SubSeq(pairs, 1, n - 1))
             NotLess(x) == x[2] >= r[2]
             Less(x) == x[2] < r[2]
         IN SelectSeq(front, NotLess) \o <<r>> \o SelectSeq(front, Less)

\* .limit(n) on an ordered result
Limit(seq, n) == SubSeq(seq, 1, Min(n, Len(seq)))

\* NewsDataLoader.top_entities on the database s
top_entities(s, hour, limit) ==
    LET ids == {k[2] : k \in {x \in DOMAIN s.entities : x[1] = hour}}
        docs == Limit(ByCountDesc(ids, [e \in ids |-> s.entities[<<hour, e>>].total]),
                      limit)
        row(e) == LET dd == s.entities[<<hour, e>>]
                  IN <<IF dd.entity # "" THEN dd.entity ELSE e, dd.total>>
    IN SortValuesDesc(DictOf([i \in DOMAIN docs |-> row(docs[i])], <<>>))

\* a mutant: the global entity cells are read instead of the country's
TopByCountryFromEntityTotals(s, hour, iso3, limit) == top_entities(s, hour, limit)

\* NewsDataLoader.top_entities_by_country on the database s
top_entities_by_country(s, hour, iso3, limit) ==
    LET ids == {k[3] : k \in {x \in DOMAIN s.countryEnts : x[1] = hour /\ x[2] = iso3}}
        docs == Limit(ByCountDesc(ids, [e \in ids |-> s.countryEnts[<<hour, iso3, e>>].count]),
                      limit)
        row(e) == LET dd == s.countryEnts[<<hour, iso3, e>>]
                  IN <<IF dd.entity # "" THEN dd.entity
                       ELSE IF dd.entityId # "" THEN dd.entityId ELSE e,
                       dd.count>>
        Positive(pr) == pr[2] > 0
        kept == SelectSeq([i \in DOMAIN docs |-> row(docs[i])], Positive)
    IN SortValuesDesc(DictOf(kept, <<>>))

\* a mutant: the documents of all buckets are read
CountryTotalsAllHours(s, hour) ==
    LET isos == {k[2] : k \in DOMAIN s.countries}
    IN [c \in isos |-> s.countries[CHOOSE k \in DOMAIN s.countries : k[2] = c].total]

\* NewsDataLoader.country_totals on the database s: document id -> total of
\* /mentions/{hour}/countries/*
CountryTotalsOf(s, hour) ==
    LET isos == {k[2] : k \in {x \in DOMAIN s.countries : x[1] = hour}}
    IN [c \in isos |-> s.countries[<<hour, c>>].total]

\* NewsDataLoader.country_breakdown_for_entity on the database s: the documents
\* of /mentions/{hour}/entities/{slugify(entity_name)}/countries/*, keyed by
\* their "country" field (the document id when it is empty)
CountryBreakdownOf(s, hour, entity_name) ==
    LET eid == slugify(entity_name)
        ids == {k[3] : k \in {x \in DOMAIN s.entCountries : x[1] = hour /\ x[2] = eid}}
        iso(c) == IF s.entCountries[<<hour, eid, c>>].country # ""
                  THEN s.entCountries[<<hour, eid, c>>].country ELSE c
    IN [c \in {iso(x) : x \in ids} |->
           s.entCountries[<<hour, eid, CHOOSE x \in ids : iso(x) = c>>].count]

\* what the dashboard asks: buckets, countries, display names, limits
AskHours == Hours
AskCountries == {"USA", "XX"}
AskNames == {"NASA", "Nasa", "FAA"}
Limits == 1..MaxLimit

\* one aggregate query of a callback (load_hour_data, build_topics_panel,
\* load_entity_breakdown) on the current counters; `answer` keeps it until shown
Ask(query, hour, arg, limit) ==
    /\ answer = NoAnswer
    /\ \A w \in Workers : txn[w].pc = "idle"
    /\ answer' =
         [query |-> query, hour |-> hour, arg |-> arg, limit |-> limit,
          rows |-> CASE query = "country_totals" -> CountryTotalsOf(fs, hour)
                     [] query = "top_entities" -> top_entities(fs, hour, limit)
                     [] query = "top_entities_by_country" ->
                            top_entities_by_country(fs, hour, arg, limit)
                     [] OTHER -> CountryBreakdownOf(fs, hour, arg)]
    /\ UNCHANGED <<rollupVars, articleDb, store, last, failed, threads, ui>>

\* the callback has rendered the result
Shown ==
    /\ answer # NoAnswer
    /\ answer' = NoAnswer
    /\ UNCHANGED <<rollupVars, articleDb, store, last, failed, threads, ui>>

\* no answer is waiting to be shown
Quiet == answer = NoAnswer

\* the ingestion applies events one at a time while the dashboard asks
QueryNext ==
    \/ Quiet /\ \E id \in ArticleIds, inp \in WriterInputs : WriteArticle("w1", id, inp)
    \/ Quiet /\ \E id \in ArticleIds, d \in GivenDocs : GiveDoc(id, d)
    \/ Quiet /\ \E id \in ArticleIds : CallApply("w1", id)
    \/ Quiet /\ TxnRead("w1")
    \/ Quiet /\ TxnCommit("w1")
    \/ Quiet /\ Return("w1")
    \/ \E hour \in AskHours : Ask("country_totals", hour, "", 0)
    \/ \E hour \in AskHours, limit \in Limits : Ask("top_entities", hour, "", limit)
    \/ \E hour \in AskHours, iso3 \in AskCountries, limit \in Limits :
          Ask("top_entities_by_country", hour, iso3, limit)
    \/ \E hour \in AskHours, name \in AskNames :
          Ask("country_breakdown_for_entity", hour, name, 0)
    \/ Shown

QuerySpec == Init /\ [][QueryNext]_vars

\* the EntityTotal cells of a bucket and the display name of each
EntityCells(hour) == {k[2] : k \in {x \in DOMAIN fs.entities : x[1] = hour}}
DisplayName(hour, e) ==
    IF fs.entities[<<hour, e>>].entity # "" THEN fs.entities[<<hour, e>>].entity ELSE e

\* rows are pairs <<displayName, count>> of EntityTotal cells of the bucket, at
\* most limit of them, and no cell left out has a larger count than one returned
TopOfEntityTotals(rows, hour, limit) ==
    /\ Len(rows) <= limit
    /\ \A i \in DOMAIN rows :
           \E e \in EntityCells(hour) :
               rows[i] = <<DisplayName(hour, e), EntityTotal(hour, e)>>
    /\ \A e \in EntityCells(hour) :
           (\A i \in DOMAIN rows : rows[i][1] # DisplayName(hour, e)) =>
               /\ Len(rows) = limit
               /\ \A i \in DOMAIN rows : EntityTotal(hour, e) <= rows[i][2]

\* C22 as stated: topEntities returns at most limit entries in strictly
\* descending order of count, each the count of an EntityTotal cell of the
\* bucket, no cell of larger count omitted.
C22_TopEntitiesStrictlyDescending ==
    answer.query = "top_entities" =>
        /\ TopOfEntityTotals(answer.rows, answer.hour, answer.limit)
        /\ \A i \in 1..(Len(answer.rows) - 1) :
               answer.rows[i][2] > answer.rows[i + 1][2]

\* C22 amended: the same, in descending order of count where entries of equal
\* count follow each other.
C22_TopEntities ==
    answer.query = "top_entities" =>
        /\ TopOfEntityTotals(answer.rows, answer.hour, answer.limit)
        /\ \A i \in 1..(Len(answer.rows) - 1) :
               answer.rows[i][2] >= answer.rows[i + 1][2]

\* C22 witness: a bucket with two cells of different counts asked with limit 1:
\* the larger one is returned, the smaller one left out.
C22_Witness ==
    /\ answer.query = "top_entities"
    /\ answer.limit = 1
    /\ Len(answer.rows) = 1
    /\ answer.rows[1][2] = 2
    /\ \E e \in EntityCells(answer.hour) : EntityTotal(answer.hour, e) = 1

\* the CountryEntityBreakdown cells of a bucket and a country
CountryEntityCells(hour, iso3) ==
    {k[3] : k \in {x \in DOMAIN fs.countryEnts : x[1] = hour /\ x[2] = iso3}}

\* C23: topEntitiesForCountry returns at most limit entries, each the display
\* name and count of a CountryEntityBreakdown cell of that bucket and country,
\* ordered by count descending, none with count zero.
C23_TopEntitiesForCountry ==
    answer.query = "top_entities_by_country" =>
        /\ Len(answer.rows) <= answer.limit
        /\ \A i \in DOMAIN answer.rows :
               /\ answer.rows[i][2] > 0
               /\ \E e \in CountryEntityCells(answer.hour, answer.arg) :
                      /\ answer.rows[i][1] =
                             fs.countryEnts[<<answer.hour, answer.arg, e>>].entity
                      /\ answer.rows[i][2] =
                             CountryEntityBreakdown(answer.hour, answer.arg, e)
        /\ \A i \in 1..(Len(answer.rows) - 1) :
               answer.rows[i][2] >= answer.rows[i + 1][2]
        /\ Len(answer.rows) =
               Min(answer.limit, Cardinality(CountryEntityCells(answer.hour, answer.arg)))

\* C23 witness: a country with two entities of different counts, asked with
\* limit 2.
C23_Witness ==
    /\ answer.query = "top_entities_by_country"
    /\ answer.arg = "USA"
    /\ Len(answer.rows) = 2
    /\ answer.rows[1][2] > answer.rows[2][2]

\* the identifier the rollup writes the entities of these display names under
IdOfName(name) ==
    CASE name \in {"NASA", "Nasa"} -> "nasa"
      [] name = "FAA" -> "faa"
      [] OTHER -> name

\* C24: the queries reflect the counters exactly. countryTotals(bucket) maps the
\* countries that have a CountryTotal cell in the bucket, and no other, to their
\* counts; countryBreakdownForEntity(bucket, name) maps the countries that have
\* an EntityCountryBreakdown cell under the identifier of the name, and no
\* other, to their counts, for every display name of that identifier.
C24_QueriesReflectCounters ==
    /\ answer.query = "country_totals" =>
         /\ DOMAIN answer.rows =
                {k[2] : k \in {x \in DOMAIN fs.countries : x[1] = answer.hour}}
         /\ \A c \in DOMAIN answer.rows : answer.rows[c] = CountryTotal(answer.hour, c)
    /\ answer.query = "country_breakdown_for_entity" =>
         LET e == IdOfName(answer.arg)
         IN /\ DOMAIN answer.rows =
                   {k[3] : k \in {x \in DOMAIN fs.entCountries :
                                     x[1] = answer.hour /\ x[2] = e}}
            /\ \A c \in DOMAIN answer.rows :
                   answer.rows[c] = EntityCountryBreakdown(answer.hour, e, c)

\* C24 witness: the breakdown of an entity counted in two countries, asked under
\* a display name other than the one its cell shows.
C24_Witness ==
    /\ answer.query = "country_breakdown_for_entity"
    /\ DOMAIN answer.rows = {"USA", "XX"}
    /\ Has(fs.entities, <<answer.hour, IdOfName(answer.arg)>>)
    /\ fs.entities[<<answer.hour, IdOfName(answer.arg)>>].entity # answer.arg

----------------------------------------------------------------------------
(* Callbacks of the dashboard running get on several threads *)

\* a thread enters get: the exact hit and the superset reuse run without leaving
\* the thread; on a miss the thread calls the loader and waits for the store
GetBegin(t, hour, country, entity, snap, per_page) ==
    LET g == get(store, articleDb, TRUE, hour, country, entity, snap.totals, snap.breakdown, snap.tops, per_page)
    IN /\ threads[t].pc = "idle"
       /\ IF g.path = "fetch"
          THEN /\ threads' = [threads EXCEPT ![t] =
                      [pc |-> "fetching", key |-> Key(hour, country, entity),
                       per_page |-> per_page]]
               /\ store' = store
          ELSE /\ Cardinality(DOMAIN g.store) <= MaxEntries
               /\ store' = g.store
               /\ threads' = threads
       /\ UNCHANGED <<articleDb, last, failed, answer, ui, rollupVars>>

\* load_articles answers (or raises) and get goes on: self.store[key] = fetched
GetEnd(t, up) ==
    LET key == threads[t].key
        call == <<key[1], key[2], key[3], threads[t].per_page>>
        g == IF up
             THEN Fallback(store, key,
                           load_articles(articleDb, key[1], key[2], key[3],
                                         threads[t].per_page),
                           call, threads[t].per_page)
             ELSE LoaderRaises(store, key, call)
    IN /\ threads[t].pc = "fetching"
       /\ Cardinality(DOMAIN g.store) <= MaxEntries
       /\ store' = g.store
       /\ threads' = [threads EXCEPT ![t] = NoGet]
       /\ UNCHANGED <<articleDb, last, failed, answer, ui, rollupVars>>

ConcNext ==
    \/ Arrive
    \/ \E t \in Threads, hour \in QueryHours, country \in QueryCountries,
          entity \in QueryEntities, per_page \in PageSizes :
          \E snap \in Snapshots(hour, entity) :
              GetBegin(t, hour, country, entity, snap, per_page)
    \/ \E t \in Threads, up \in BOOLEAN : GetEnd(t, up)

ConcSpec == Init /\ [][ConcNext]_vars

\* C21: two get calls for the same exact key that both miss do not both go to
\* the backing store: at most one loader fetch is in flight for a key.
C21_SingleFlight ==
    \A t1, t2 \in Threads :
        ( /\ t1 # t2
          /\ threads[t1].pc = "fetching"
          /\ threads[t2].pc = "fetching" )
        => threads[t1].key # threads[t2].key

----------------------------------------------------------------------------
(* The dashboard's callbacks around the article list *)

DashHours == {hour_bucket(605), hour_bucket(665)}
DashTopics == {"", "NASA", "FAA"}
DashCountries == {"USA"}

\* a user's change is followed by the callbacks that have the changed store as
\* Input; they wait in `pending` and run in any order
Changed(u, callbacks) == [u EXCEPT !.pending = callbacks, !.passed = NoPass]

\* set_hour_from_slider writes hour-store: load_hour_data and
\* update_articles_list have it as Input (load_entity_breakdown as State only)
SetHour(h) ==
    /\ ui.pending = {}
    /\ last = NoCall
    /\ h # ui.hour
    /\ ui' = Changed([ui EXCEPT !.hour = h], {"load_hour_data", "update_articles_list"})
    /\ UNCHANGED <<articleDb, store, last, failed, threads, answer, rollupVars>>

\* set_active_topic_from_click writes active-topic (None on clear-topic):
\* load_entity_breakdown and update_articles_list have it as Input
SetTopic(e) ==
    /\ ui.pending = {}
    /\ last = NoCall
    /\ e # ui.topic
    /\ ui' = Changed([ui EXCEPT !.topic = e],
                     {"load_entity_breakdown", "update_articles_list"})
    /\ UNCHANGED <<articleDb, store, last, failed, threads, answer, rollupVars>>

\* toggle_country writes selected-iso3: a click on the selected country clears it
ToggleCountry(c) ==
    /\ ui.pending = {}
    /\ last = NoCall
    /\ ui' = Changed([ui EXCEPT !.iso3 = IF ui.iso3 = c THEN "" ELSE c],
                     {"update_articles_list"})
    /\ UNCHANGED <<articleDb, store, last, failed, threads, answer, rollupVars>>

\* load_hour_data: country-totals-store and global-top-entities-store of the hour
LoadHourData ==
    LET now == Snapshot(Cardinality(articleDb), ui.hour, "")
    IN /\ "load_hour_data" \in ui.pending
       /\ ui' = IF ui.hour = 0
                THEN [ui EXCEPT !.totals = Some(<<>>), !.tops = Some(<<>>),
                                !.totalsOf = 0, !.pending = @ \ {"load_hour_data"}]
                ELSE [ui EXCEPT !.totals = now.totals, !.tops = now.tops,
                                !.totalsOf = ui.hour,
                                !.pending = @ \ {"load_hour_data"}]
       /\ UNCHANGED <<articleDb, store, last, failed, threads, answer, rollupVars>>

\* load_entity_breakdown: entity-breakdown-store of the active topic in the hour
\* of hour-store, {} without a topic
LoadEntityBreakdown ==
    /\ "load_entity_breakdown" \in ui.pending
    /\ ui' = IF ui.topic = ""
             THEN [ui EXCEPT !.breakdown = Some(<<>>), !.breakdownOf = <<0, "">>,
                             !.pending = @ \ {"load_entity_breakdown"}]
             ELSE [ui EXCEPT !.breakdown =
                                Some(country_breakdown_for_entity(articleDb, ui.hour,
                                                                  ui.topic)),
                             !.breakdownOf = <<ui.hour, ui.topic>>,
                             !.pending = @ \ {"load_entity_breakdown"}]
    /\ UNCHANGED <<articleDb, store, last, failed, threads, answer, rollupVars>>

\* update_articles_list: the three stores are State, read as they are when the
\* callback runs; without an hour it returns before get
UpdateArticlesList(up) ==
    /\ "update_articles_list" \in ui.pending
    /\ IF ui.hour = 0
       THEN /\ ui' = [ui EXCEPT !.pending = @ \ {"update_articles_list"}]
            /\ UNCHANGED <<articleDb, store, last, failed, threads, answer, rollupVars>>
       ELSE /\ Get(ui.hour, ui.iso3, ui.topic,
                   [totals |-> ui.totals, breakdown |-> ui.breakdown, tops |-> ui.tops],
                   MaxPage, up)
            /\ ui' = [ui EXCEPT !.pending = @ \ {"update_articles_list"},
                                !.passed = [hour |-> ui.hour, topic |-> ui.topic,
                                            totalsOf |-> ui.totalsOf,
                                            breakdownOf |-> ui.breakdownOf]]

\* the page is opened on the collection as it is then
Opened == ui # NoUi

DashNext ==
    \/ ~Opened /\ Arrive
    \/ \E h \in DashHours : SetHour(h)
    \/ \E e \in DashTopics : SetTopic(e)
    \/ \E c \in DashCountries : ToggleCountry(c)
    \/ LoadHourData
    \/ LoadEntityBreakdown
    \/ \E up \in BOOLEAN : UpdateArticlesList(up)
    \/ Rendered

DashSpec == Init /\ [][DashNext]_vars

\* C32: the snapshot handed to the cache belongs to the query. Whenever
\* update_articles_list calls get, the country totals and the top entities it
\* passes were loaded for the hour of the call, and the breakdown it passes was
\* loaded for the topic and the hour of the call (the empty one without a topic).
C32_SnapshotOfSelection ==
    ui.passed # NoPass =>
        /\ ui.passed.totalsOf = ui.passed.hour
        /\ ui.passed.breakdownOf =
              IF ui.passed.topic = "" THEN <<0, "">>
              ELSE <<ui.passed.hour, ui.passed.topic>>

----------------------------------------------------------------------------
(* Calls of get for a query with both filters and for its two parents *)

\* the (country, entity) pairs of the query with both filters and of its parents
ParentQueries == {<<"USA", "">>, <<"", "NASA">>, <<"USA", "NASA">>}

\* the cache may hold both parents and the key itself
ParentNext ==
    \/ Arrive
    \/ \E q \in ParentQueries, per_page \in PageSizes :
          \E snap \in Snapshots(hour_bucket(605), q[2]) :
              /\ GetUpTo(MaxEntries + 1, hour_bucket(605), q[1], q[2], snap, per_page, TRUE)
              /\ UNCHANGED ui
    \/ Rendered

ParentSpec == Init /\ [][ParentNext]_vars

\* parent pk is held and holds at least `expected` rows matching the key
Sufficient(pk, key, expected) ==
    /\ expected # None
    /\ Has(store, pk)
    /\ MatchCount(store, pk, key) >= expected[1]

\* C37: the order of the parents. A call with both filters that misses the exact
\* key takes the country-only parent when that is held and holds at least
\* expected matching rows; it takes the entity-only parent only when the
\* country-only one is absent or holds fewer; it goes to the loader only when
\* neither parent serves, and a call served by a parent calls no loader.
C37_ParentOrder ==
    [][ ( /\ GetStep
          /\ last'.key[2] # "" /\ last'.key[3] # ""
          /\ ~Has(store, last'.key) ) =>
            LET key == last'.key
                byCountry == Key(key[1], key[2], "")
                byEntity == Key(key[1], "", key[3])
                first == Sufficient(byCountry, key, last'.expected)
                second == Sufficient(byEntity, key, last'.expected)
            IN /\ first =>
                     /\ last'.path = "reuse"
                     /\ store'[key] = Filtered(store[byCountry], key[2], key[3])
               /\ (~first /\ second) =>
                     /\ last'.path = "reuse"
                     /\ store'[key] = Filtered(store[byEntity], key[2], key[3])
               /\ (~first /\ ~second) =>
                     /\ last'.path \in {"fetch", "raise"}
                     /\ last'.fetched # None
               /\ last'.path = "reuse" => last'.fetched = None
      ]_vars

\* C37 witness: both parents are held, each holds as many matching rows as
\* expected, they give different lists, and the key holds the list of the
\* country-only parent.
C37_Witness ==
    LET byCountry == Key(LastHour, LastCountry, "")
        byEntity == Key(LastHour, "", LastEntity)
    IN /\ last.path = "reuse"
       /\ Sufficient(byCountry, last.key, last.expected)
       /\ Sufficient(byEntity, last.key, last.expected)
       /\ last.expected[1] >= 1
       /\ Filtered(store[byCountry], LastCountry, LastEntity)
             # Filtered(store[byEntity], LastCountry, LastEntity)
       /\ store[last.key] = Filtered(store[byCountry], LastCountry, LastEntity)

----------------------------------------------------------------------------
(* Deliveries of events through the write path, before and after the rollup *)

\* writes of the article by the write path: every upsert and every rollup
\* commit adds one to its version
Deliveries(id) == fs.articles[id].ver - commits[id]

\* write_article on a delivery of the event's message, also of an event that is
\* processed already (retryOf keeps what the delivery found)
Deliver(w, id, inp) ==
    /\ txn[w].pc = "idle"
    /\ Deliveries(id) < MaxDeliveries
    /\ fs.articles[id].exists => SamePayload(fs.articles[id], Payload(inp))
    /\ fs' = [fs EXCEPT !.articles[id] = TxWrite(@, Payload(inp))]
    /\ txn' = [txn EXCEPT ![w] =
         [Idle EXCEPT !.pc = "begin", !.id = id,
                      !.retryOf = IF fs.articles[id].done THEN "processed"
                                  ELSE IF fs.articles[id].exists THEN "stored"
                                  ELSE ""]]
    /\ UNCHANGED <<commits, cacheVars>>

DeliveryNext ==
    \/ \E w \in Workers, id \in ArticleIds, inp \in WriterInputs : Deliver(w, id, inp)
    \/ \E w \in Workers : TxnRead(w)
    \/ \E w \in Workers : TxnCommit(w)
    \/ \E w \in Workers : CommitFail(w)
    \/ \E w \in Workers : Return(w)

DeliverySpec == Init /\ [][DeliveryNext]_vars

\* C35: a redelivery through the write path does not recount. The upsert of an
\* event that is stored keeps its processed marker and its bucket and changes no
\* counter; a rollup call that reads a processed event is a no-op that leaves
\* the database as it is; the rollup of an event commits at most once, and a
\* call for a stored event that returns leaves it processed with exactly one
\* commit, also when an earlier delivery stored it and failed before the commit.
C35_RedeliveryNoRecount ==
    [][ /\ \A id \in ArticleIds :
              LET a == fs.articles[id]
                  b == fs'.articles[id]
              IN /\ (a.exists /\ b.ver # a.ver /\ commits'[id] = commits[id]) =>
                        /\ b.done = a.done
                        /\ b.hour = a.hour
                        /\ Counts(fs') = Counts(fs)
                 /\ commits'[id] <= 1
        /\ \A w \in Workers :
              /\ ( /\ txn[w].pc = "begin"
                   /\ txn'[w] # txn[w]
                   /\ fs.articles[txn[w].id].done ) =>
                     /\ txn'[w].pc = "returned"
                     /\ txn'[w].outcome = "noop"
                     /\ fs' = fs
              /\ ( /\ txn'[w].pc = "returned"
                   /\ txn'[w].outcome \in {"committed", "noop"} ) =>
                     /\ fs'.articles[txn'[w].id].done
                     /\ commits'[txn'[w].id] = 1
      ]_vars

\* C35 witness: an event was rolled up and then written again by the write
\* path; the call of that delivery found it processed and returned without a
\* write, the event counted once.
C35_Witness ==
    \E w \in Workers :
        LET a == fs.articles[txn[w].id]
        IN /\ txn[w].pc = "returned"
           /\ txn[w].outcome = "noop"
           /\ a.done
           /\ txn[w].retryOf = "processed"
           /\ Deliveries(txn[w].id) = 2
           /\ a.time = Ts(605)
           /\ a.country = "USA"
           /\ commits[txn[w].id] = 1
           /\ CountryTotal(hour_bucket(605), "USA") = 1

----------------------------------------------------------------------------
(* Deliveries of one event whose failed calls are made again *)

RetryEvent == "a1"

\* the event was stored by an earlier delivery whose rollup did not commit;
\* versions and deliveries are counted from here
RetryInit ==
    /\ \E inp \in WriterInputs :
         fs = [EmptyFs EXCEPT !.articles[RetryEvent] =
                  [TxWrite(NoDoc, Payload(inp)) EXCEPT !.ver = 0]]
    /\ txn = [w \in Workers |-> Idle]
    /\ commits = [id \in ArticleIds |-> 0]
    /\ CacheInit

RetryNext ==
    \/ \E w \in Workers, inp \in WriterInputs : WriteArticle(w, RetryEvent, inp)
    \/ \E w \in Workers : CallApply(w, RetryEvent)
    \/ \E w \in Workers : TxnRead(w)
    \/ \E w \in Workers : TxnCommit(w)
    \/ \E w \in Workers : CommitFail(w)
    \/ \E w \in Workers : Retry(w)
    \/ \E w \in Workers : Redeliver(w)
    \/ \E w \in Workers : txn[w].pc = "returned" /\ Return(w)

\* a call in progress goes on, a failed call is made again, and the store does
\* not reject the commits of a worker for ever
RetryFairness ==
    \A w \in Workers :
        /\ WF_vars(TxnRead(w))
        /\ SF_vars(TxnCommit(w))
        /\ WF_vars(Retry(w))

RetrySpec == RetryInit /\ [][RetryNext]_vars /\ RetryFairness

====
